---- MODULE Spec2Model ----
(***************************************************************************)
(* Model of the multi-source aggregation pipelines of AgentsToAllies:      *)
(* classifier (route_categories / classify_query), per-category fetch,     *)
(* deduplication (dedup_articles, deduplicate_jobs, clean_job_data) and    *)
(* summarisation, as implemented by the news and job orchestrators.        *)
(*                                                                         *)
(* Python values are modelled as records [k |-> kind, ...]; Python strings *)
(* whose content matters are sequences of one-character strings, so that   *)
(* strip / lower / rstrip are computed and not assumed.                    *)
(***************************************************************************)
EXTENDS Integers, Sequences, FiniteSets, TLC

VARIABLES
    dDomain,    \* which helper is exercised: "news" or "jobs"
    dIn,        \* the record list handed to the helper
    dOut,       \* the helper's outcome, NotCalled before the call
    cVariant,   \* classifier under test: "news", "maf" or "classifier"
    cLlm,       \* what the classifier's text-generation call did
    cOut,       \* what the classifier did: a returned list or a raise
    orch,       \* the news orchestrator that runs the request
    pc,         \* stage of the run: "route", "fetch", "summarize", "final", "done"
    targets,    \* the categories the router selected
    resp,       \* per target: what its category agent answered, Pending before
    order,      \* the targets' indices in the order their fetches completed
    merged,     \* the list handed to dedup_articles, NotCalled before
    unique,     \* the list dedup_articles returned, NotCalled before
    kept,       \* (ghost) positions in merged of the records of unique
    sumCalls,   \* number of invocations of the summarizer agent so far
    sumArgs,    \* what each invocation of the summarizer agent was given
    result,     \* what run/execute returned or raised, NotCalled before
    jPc,        \* JobProOrchestrator.run: "extract", "recommend", "summarize", "done"
    jJobs,      \* jobs after extraction, cleaning and dedup, NotCalled before
    jRecommended, \* recommended after cleaning and dedup, NotCalled before
    jSummaries, \* number of entries of summaries
    jRecCalls,  \* number of invocations of the recommender agent
    jSumCalls,  \* number of invocations of the job summary agent
    jResult,    \* what JobProOrchestrator.run returned or raised
    pFn,        \* the search collaborator that is called
    pKey,       \* whether the API key is set in the environment
    pLimit,     \* the limit argument of the call
    pHttp,      \* what requests.get did, NotCalled when no request was made
    pOut,       \* what the collaborator returned or raised, NotCalled before
    eAgents,    \* ADK_Environment.agents: the registered agent ids
    eQueues,    \* ADK_Environment.message_queues: agent id -> list of messages
    eSent,      \* (ghost) per agent id: the messages sent to it while registered
    eGot,       \* (ghost) per agent id: the messages get_messages_for_agent returned
    eSends,     \* (ghost) number of send_message calls so far
    sTurn,      \* run_simulation: the agent whose turn is next, "none" outside
    sStep,      \* run_simulation: number of completed steps
    xLast,      \* extractor: whether last_extraction_time was set ("never", "set")
    xPercepts,  \* extractor: self.percepts
    xCount,     \* extractor: beliefs['last_extracted_jobs_count']
    aPercepts,  \* analyst: self.percepts
    aTotal,     \* analyst: beliefs['total_jobs_processed']
    sRaised,    \* whether run_simulation ended with an exception
    sSentJobs,  \* (ghost) jobs in the new_job_data messages the extractor sent
    gVariant,   \* the pagination loop that runs: "adk" or "tester"
    gPc,        \* "loop", "returned", "raised"; "idle" outside
    gNum,       \* num_results
    gAll,       \* all_jobs
    gToken,     \* next_page_token of the tester, NoneV before
    gStart,     \* start_page of the ADK extractor
    gPages,     \* (ghost) the items of the pages received, in page order
    gOut,       \* the returned list, NotCalled before
    mMemory,    \* _travel_memory._memory of the current TravelMemory
    mLast,      \* (ghost) per key: the last value stored since the last clear/reset
    mCopy,      \* the dict a caller got from get_all_preferences, NotCalled before
    mGot        \* the last get_preference call and what it returned

dedupVars == <<dDomain, dIn, dOut>>

classifierVars == <<cVariant, cLlm, cOut>>

runVars ==
    <<orch, pc, targets, resp, order, merged, unique, kept, sumCalls, sumArgs, result>>

jobVars == <<jPc, jJobs, jRecommended, jSummaries, jRecCalls, jSumCalls, jResult>>

pluginVars == <<pFn, pKey, pLimit, pHttp, pOut>>

envVars == <<eAgents, eQueues, eSent, eGot, eSends>>

simVars ==
    <<sTurn, sStep, xLast, xPercepts, xCount, aPercepts, aTotal, sRaised, sSentJobs>>

adkVars == <<envVars, simVars>>

pageVars == <<gVariant, gPc, gNum, gAll, gToken, gStart, gPages, gOut>>

memVars == <<mMemory, mLast, mCopy, mGot>>

vars ==
    <<dDomain, dIn, dOut, cVariant, cLlm, cOut,
      orch, pc, targets, resp, order, merged, unique, kept, sumCalls, sumArgs, result,
      jPc, jJobs, jRecommended, jSummaries, jRecCalls, jSumCalls, jResult,
      pFn, pKey, pLimit, pHttp, pOut, adkVars, pageVars, memVars>>

-----------------------------------------------------------------------------
(* Bounds of the model *)

MaxRecords == 3     \* longest record list handed to a dedup helper

MaxTargets == 2     \* longest label list in a classifier response

-----------------------------------------------------------------------------
(* Python values *)

NoneV == [k |-> "none"]
Missing == [k |-> "missing"]        \* the key is not in the dict
Str(s) == [k |-> "str", s |-> s]
EmptyStr == Str(<<>>)

IsStr(v) == v.k = "str"

\* dict.get(key): None when the key is absent
Get(d, key) == IF d[key] = Missing THEN NoneV ELSE d[key]

\* dict.get(key, default)
GetDefault(d, key, default) == IF d[key] = Missing THEN default ELSE d[key]

\* Python truthiness of None / str
Truthy(v) == IsStr(v) /\ v.s # <<>>

\* x or ""
OrEmpty(v) == IF Truthy(v) THEN v ELSE EmptyStr

-----------------------------------------------------------------------------
(* str methods, on sequences of characters *)

Whitespace == {" "}

LowerChar(c) == CASE c = "A" -> "a" [] c = "B" -> "b" [] OTHER -> c

UpperChar(c) == CASE c = "a" -> "A" [] c = "b" -> "B" [] OTHER -> c

IsLetter(c) == c \in {"a", "b", "A", "B", "c", "d", "s", "u", "v"}

RECURSIVE LStripSet(_, _)
LStripSet(s, cs) ==
    IF s # <<>> /\ Head(s) \in cs THEN LStripSet(Tail(s), cs) ELSE s

RECURSIVE RStripSet(_, _)
RStripSet(s, cs) ==
    IF s # <<>> /\ s[Len(s)] \in cs
    THEN RStripSet(SubSeq(s, 1, Len(s) - 1), cs)
    ELSE s

\* str.strip()
Strip(s) == RStripSet(LStripSet(s, Whitespace), Whitespace)

\* str.lower()
Lower(s) == [i \in 1..Len(s) |-> LowerChar(s[i])]

\* str.title(): a letter after a non-letter is upper-cased, others lowered
TitleCase(s) ==
    [i \in 1..Len(s) |->
        IF i = 1 \/ ~IsLetter(s[i - 1]) THEN UpperChar(s[i]) ELSE LowerChar(s[i])]

-----------------------------------------------------------------------------
(* news/src/utils/dedup.py *)

TitlePunct == {".", "-", "!", "?", "$"}

\* Variant: the title is lowercased and trimmed but keeps its punctuation.
NormKeepPunct(t) == Lower(Strip(OrEmpty(t).s))

\* _norm_title(t) = (t or "").strip().lower().rstrip(".-!?$")
_norm_title(t) == RStripSet(Lower(Strip(OrEmpty(t).s)), TitlePunct)

\* url = (a.get("url") or "").strip()
ArticleUrl(a) == Strip(OrEmpty(Get(a, "url")).s)

ArticleTitle(a) == _norm_title(Get(a, "title"))

\* Variant of the loop body that records the keys of dropped records too.
DedupSeenAlways(st, a, i) ==
    LET url == ArticleUrl(a)
        title == ArticleTitle(a)
        drop == \/ (title = <<>> /\ url = <<>>)
                \/ (url # <<>> /\ url \in st.seen_urls)
                \/ (title # <<>> /\ title \in st.seen_titles)
    IN  [seen_urls |-> st.seen_urls \cup {url},
         seen_titles |-> st.seen_titles \cup {title},
         out |-> IF drop THEN st.out ELSE Append(st.out, a),
         kept |-> IF drop THEN st.kept ELSE Append(st.kept, i)]

\* Variant of the loop body in which the URL, when present, is the sole key.
DedupUrlOnly(st, a, i) ==
    LET url == ArticleUrl(a)
        title == ArticleTitle(a)
    IN  IF title = <<>> /\ url = <<>> THEN st
        ELSE IF url # <<>> /\ url \in st.seen_urls THEN st
        ELSE IF url = <<>> /\ title \in st.seen_titles THEN st
        ELSE [seen_urls |-> st.seen_urls \cup {url},
              seen_titles |-> st.seen_titles \cup {title},
              out |-> Append(st.out, a),
              kept |-> Append(st.kept, i)]

\* Variant of the loop body in which the last record of a key replaces the
\* first.
DedupKeepLast(st, a, i) ==
    LET url == ArticleUrl(a)
        title == ArticleTitle(a)
        Clash(j) == \/ (url # <<>> /\ ArticleUrl(st.out[j]) = url)
                    \/ (title # <<>> /\ ArticleTitle(st.out[j]) = title)
    IN  IF title = <<>> /\ url = <<>> THEN st
        ELSE IF \E j \in 1..Len(st.out) : Clash(j)
             THEN [st EXCEPT !.out = [j \in 1..Len(st.out) |->
                                         IF Clash(j) THEN a ELSE st.out[j]],
                             !.kept = [j \in 1..Len(st.kept) |->
                                         IF Clash(j) THEN i ELSE st.kept[j]]]
        ELSE [seen_urls |-> st.seen_urls \cup {url},
              seen_titles |-> st.seen_titles \cup {title},
              out |-> Append(st.out, a),
              kept |-> Append(st.kept, i)]

\* One iteration of the loop of dedup_articles over articles[i]; st carries
\* seen_urls, seen_titles, out and (ghost) the indices of the kept records.
DedupStep(st, a, i) ==
    LET url == ArticleUrl(a)
        title == ArticleTitle(a)
    IN  IF title = <<>> /\ url = <<>> THEN st
        ELSE IF url # <<>> /\ url \in st.seen_urls THEN st
        ELSE IF title # <<>> /\ title \in st.seen_titles THEN st
        ELSE [seen_urls |-> st.seen_urls \cup {url},
              seen_titles |-> st.seen_titles \cup {title},
              out |-> Append(st.out, a),
              kept |-> Append(st.kept, i)]

RECURSIVE DedupLoop(_, _, _)
DedupLoop(articles, i, st) ==
    IF i > Len(articles) THEN st
    ELSE DedupLoop(articles, i + 1, DedupStep(st, articles[i], i))

DedupRun(articles) ==
    DedupLoop(articles, 1,
              [seen_urls |-> {}, seen_titles |-> {}, out |-> <<>>, kept |-> <<>>])

\* dedup_articles(articles): the list `out`
dedup_articles(articles) == DedupRun(articles).out

\* (ghost) positions in `articles` of the records dedup_articles keeps
KeptIndices(articles) == DedupRun(articles).kept

-----------------------------------------------------------------------------
(* job_recommendation_maf/src/utils/dedup.py *)

\* job.get(field, "").lower().strip(); AttributeError when the value is None
JobKeyPart(job, field) ==
    LET v == GetDefault(job, field, EmptyStr)
    IN  IF IsStr(v) THEN [raised |-> FALSE, s |-> Strip(Lower(v.s))]
        ELSE [raised |-> TRUE, s |-> <<>>]

JobsStepResort(st, job) ==
    LET t == JobKeyPart(job, "title")
        c == JobKeyPart(job, "company")
        key == <<t.s, c.s>>
    IN  IF st.raised THEN st
        ELSE IF t.raised \/ c.raised THEN [st EXCEPT !.raised = TRUE]
        ELSE IF key \notin st.seen /\ t.s # <<>> /\ c.s # <<>>
             THEN [st EXCEPT !.seen = @ \cup {key}, !.out = <<job>> \o @]
             ELSE st

\* One iteration of the loop of deduplicate_jobs (title + company key)
JobsStep(st, job) ==
    LET t == JobKeyPart(job, "title")
        c == JobKeyPart(job, "company")
        key == <<t.s, c.s>>
    IN  IF st.raised THEN st
        ELSE IF t.raised \/ c.raised THEN [st EXCEPT !.raised = TRUE]
        ELSE IF key \notin st.seen /\ t.s # <<>> /\ c.s # <<>>
             THEN [st EXCEPT !.seen = @ \cup {key}, !.out = Append(@, job)]
             ELSE st

RECURSIVE JobsLoop(_, _, _)
JobsLoop(jobs, i, st) ==
    IF i > Len(jobs) THEN st
    ELSE JobsLoop(jobs, i + 1, JobsStep(st, jobs[i]))

\* deduplicate_jobs(jobs) of job_recommendation_maf: [raised, val]
deduplicate_jobs(jobs) ==
    LET st == JobsLoop(jobs, 1, [raised |-> FALSE, seen |-> {}, out |-> <<>>])
    IN  IF st.raised THEN [raised |-> TRUE, val |-> <<>>]
        ELSE [raised |-> FALSE, val |-> st.out]

-----------------------------------------------------------------------------
(* job_recommendation/src/utils/dedup_utils.py *)

\* One iteration of the loop of deduplicate_jobs (id + title key, raw values)
JobsSkStep(st, job) ==
    LET key == <<Get(job, "id"), Get(job, "title")>>
    IN  IF key \notin st.seen
        THEN [seen |-> st.seen \cup {key}, out |-> Append(st.out, job)]
        ELSE st

RECURSIVE JobsSkLoop(_, _, _)
JobsSkLoop(jobs, i, st) ==
    IF i > Len(jobs) THEN st
    ELSE JobsSkLoop(jobs, i + 1, JobsSkStep(st, jobs[i]))

\* deduplicate_jobs(jobs) of job_recommendation: never raises on dicts
deduplicate_jobs_sk(jobs) ==
    [raised |-> FALSE,
     val |-> JobsSkLoop(jobs, 1, [seen |-> {}, out |-> <<>>]).out]

-----------------------------------------------------------------------------
(* job_recommendation/src/utils/job_cleaner_utils.py *)

CleanedFields == {"title", "company", "location", "description"}

\* clean_job_data(job): job.get(f, '').strip() per field, .title() for the
\* title; AttributeError when a field holds None
clean_job_data(job) ==
    LET val(f) == GetDefault(job, f, EmptyStr)
    IN  IF \E f \in CleanedFields : ~IsStr(val(f))
        THEN [raised |-> TRUE, val |-> job]
        ELSE [raised |-> FALSE,
              val |-> [f \in DOMAIN job |->
                          IF f = "title" THEN Str(TitleCase(Strip(val(f).s)))
                          ELSE IF f \in CleanedFields THEN Str(Strip(val(f).s))
                          ELSE job[f]]]

\* [clean_job_data(j) for j in jobs]
CleanAll(jobs) ==
    IF \E i \in 1..Len(jobs) : clean_job_data(jobs[i]).raised
    THEN [raised |-> TRUE, val |-> <<>>]
    ELSE [raised |-> FALSE,
          val |-> [i \in 1..Len(jobs) |-> clean_job_data(jobs[i]).val]]

(* job_recommendation/src/orchestration/job_orchestrator.py, lines 36-38 *)

\* [clean_job_data(j) for j in jobs] followed by deduplicate_jobs(jobs)
CleanAndDedup(raw) ==
    LET cleaned == CleanAll(raw)
    IN  IF cleaned.raised THEN [raised |-> TRUE, val |-> <<>>]
        ELSE deduplicate_jobs_sk(cleaned.val)

-----------------------------------------------------------------------------
(* Agent responses: a text is a sequence of lines; a line is a code fence, *)
(* a fence with a language tag, blank, one JSON document, or other text.   *)

Fence == [t |-> "fence"]            \* ```
FenceLang == [t |-> "fencelang"]    \* ```json
Blank == [t |-> "blank"]
Junk == [t |-> "junk"]              \* text that is not JSON
JsonLine(v) == [t |-> "json", v |-> v]

\* str.strip() of a text: leading and trailing blank lines go
StripText(text) == RStripSet(LStripSet(text, {Blank}), {Blank})

\* the markdown fence stripping of the news_maf parsers
Unfence(text) ==
    LET response == StripText(text)
    IN  IF response # <<>> /\ Head(response) \in {Fence, FenceLang}
        THEN StripText(IF response[Len(response)] = Fence
                       THEN SubSeq(response, 2, Len(response) - 1)
                       ELSE Tail(response))
        ELSE response

\* json.loads(text): the value, or JSONDecodeError
JsonLoads(text) ==
    IF Len(text) = 1 /\ text[1].t = "json"
    THEN [ok |-> TRUE, v |-> text[1].v]
    ELSE [ok |-> FALSE]

NotCalled == [fn |-> "none"]

Ret(v) == [raised |-> FALSE, val |-> v]
Raised == [raised |-> TRUE]

\* the variables of a part of the program that is not running
ClassifierIdle == cVariant = "none" /\ cLlm = NotCalled /\ cOut = NotCalled

DedupIdle == dDomain = "none" /\ dIn = <<>> /\ dOut = NotCalled

JobIdle ==
    /\ jPc = "idle" /\ jJobs = NotCalled /\ jRecommended = NotCalled
    /\ jSummaries = 0 /\ jRecCalls = 0 /\ jSumCalls = 0 /\ jResult = NotCalled

PluginIdle ==
    /\ pFn = "none" /\ pKey = FALSE /\ pLimit = 0
    /\ pHttp = NotCalled /\ pOut = NotCalled

\* a dict without keys
EmptyDict == [x \in {} |-> NoneV]

EnvIdle ==
    /\ eAgents = {} /\ eQueues = EmptyDict /\ eSent = EmptyDict
    /\ eGot = EmptyDict /\ eSends = 0

SimIdle ==
    /\ sTurn = "none" /\ sStep = 0 /\ xLast = "never" /\ xPercepts = <<>>
    /\ xCount = 0 /\ aPercepts = <<>> /\ aTotal = 0 /\ sRaised = FALSE
    /\ sSentJobs = 0

AdkIdle == EnvIdle /\ SimIdle

PageIdle ==
    /\ gVariant = "none" /\ gPc = "idle" /\ gNum = 0 /\ gAll = <<>>
    /\ gToken = NoneV /\ gStart = 0 /\ gPages = <<>> /\ gOut = NotCalled

MemIdle ==
    /\ mMemory = EmptyDict /\ mLast = EmptyDict /\ mCopy = NotCalled
    /\ mGot = NotCalled

RunIdle ==
    /\ orch = "none" /\ pc = "idle" /\ targets = <<>> /\ resp = <<>>
    /\ order = <<>> /\ merged = NotCalled /\ unique = NotCalled
    /\ kept = <<>> /\ sumCalls = 0 /\ sumArgs = <<>> /\ result = NotCalled

-----------------------------------------------------------------------------
(* news/src/agents/router_agent.py, news_maf/src/agents/router_agent.py,   *)
(* news_maf/src/agents/query_classifier_agent.py                           *)

CATEGORIES ==
    {"technology", "sports", "business", "science", "health",
     "entertainment", "general"}

General == <<"general">>

JStr(s) == [j |-> "str", s |-> s]
JNum == [j |-> "num"]
JNull == [j |-> "null"]
JList(items) == [j |-> "list", items |-> items]
JTargets(ts) == [j |-> "obj", has |-> TRUE, targets |-> ts]
JNoTargets == [j |-> "obj", has |-> FALSE]

\* str.lower() on the label strings of the model
LowerLabel(s) ==
    CASE s = "Technology" -> "technology"
      [] s = "SPORTS" -> "sports"
      [] OTHER -> s

\* the elements a for-loop over a JSON value visits (a str yields single
\* characters, shown as "?"); None and numbers are not iterable
Iterable(v) == v.j \in {"list", "str"}
Items(v) == IF v.j = "list" THEN v.items ELSE <<JStr("?")>>

StringsOf(items) ==
    LET sel == SelectSeq(items, LAMBDA e : e.j = "str")
    IN  [i \in 1..Len(sel) |-> sel[i].s]

KeepAllStrings(items) == StringsOf(items)

\* [t for t in targets if t in CATEGORIES]
FilterTargets(items) ==
    SelectSeq(StringsOf(items), LAMBDA s : s \in CATEGORIES)

\* [c.lower() for c in categories if isinstance(c, str) and c.lower() in CATEGORIES]
FilterLowered(items) ==
    LET strs == StringsOf(items)
    IN  SelectSeq([i \in 1..Len(strs) |-> LowerLabel(strs[i])],
                  LAMBDA s : s \in CATEGORIES)

\* Variant: when json.loads fails, a vocabulary term found in the text is
\* returned.
RouteParseScan(text) ==
    LET found == UNION {text[i].terms : i \in {k \in 1..Len(text) : text[k].t = "prose"}}
    IN  IF found # {} THEN <<CHOOSE t \in found : TRUE>> ELSE General

\* the try block of route_categories on the response text
RouteParse(text) ==
    LET p == JsonLoads(text)
    IN  IF ~p.ok THEN General                           \* json.loads raised
        ELSE IF p.v.j # "obj" THEN General              \* no .get: AttributeError
        ELSE LET ts == IF p.v.has THEN p.v.targets ELSE JList(<<>>)
             IN  IF ~Iterable(ts) THEN General     \* TypeError
                 ELSE IF FilterTargets(Items(ts)) = <<>> THEN General
                 ELSE FilterTargets(Items(ts))

\* route_categories of news: the agent call is outside the try block
route_categories(llm) ==
    IF llm.raised THEN Raised ELSE Ret(RouteParse(llm.text))

\* route_categories of news_maf: the agent call is outside the try block
route_categories_maf(llm) ==
    IF llm.raised THEN Raised ELSE Ret(RouteParse(Unfence(llm.text)))

\* classify_query: the whole body is inside the try block
classify_query(llm) ==
    IF llm.raised THEN Ret(General)
    ELSE IF llm.text = <<>> THEN Ret(General)
    ELSE LET p == JsonLoads(Unfence(llm.text))
         IN  IF ~p.ok THEN Ret(General)
             ELSE IF p.v.j # "list" THEN Ret(General)
             ELSE IF FilterLowered(p.v.items) = <<>> THEN Ret(General)
             ELSE Ret(FilterLowered(p.v.items))

-----------------------------------------------------------------------------
(* What the classifier's LLM can answer *)

RECURSIVE SeqsUpTo(_, _)
SeqsUpTo(S, n) ==
    IF n = 0 THEN {<<>>}
    ELSE LET shorter == SeqsUpTo(S, n - 1)
         IN  shorter \cup {Append(q, x) : q \in {r \in shorter : Len(r) = n - 1}, x \in S}

LabelElems ==
    {JStr("technology"), JStr("sports"), JStr("Technology"), JStr("weather"), JNum}

LabelLists == {JList(items) : items \in SeqsUpTo(LabelElems, MaxTargets)}

\* a targets list longer than the 1-3 labels the prompt asks for
FourLabels ==
    JList(<<JStr("technology"), JStr("sports"), JStr("business"), JStr("science")>>)

\* a line of prose, not JSON, in which the given vocabulary terms occur
Mention(terms) == [t |-> "prose", terms |-> terms]

ClassifierPayloads ==
    LabelLists
    \cup {JTargets(l) : l \in LabelLists}
    \cup {FourLabels, JTargets(FourLabels)}
    \cup {JTargets(JStr("technology")), JTargets(JNull), JTargets(JNum),
          JNoTargets, JStr("sports"), JNum, JNull}

ClassifierBodies ==
    {JsonLine(v) : v \in ClassifierPayloads}
    \cup {Junk, Mention({"sports"}), Mention({"sports", "technology"})}

Wrappings(b) ==
    {<<b>>, <<Blank, b, Blank>>, <<FenceLang, b, Fence>>, <<Fence, b, Fence>>,
     <<FenceLang, b>>, <<FenceLang, b, Fence, Blank>>}

ClassifierTexts ==
    {<<>>, <<Blank>>, <<Fence>>, <<FenceLang, Fence>>}
    \cup UNION {Wrappings(b) : b \in ClassifierBodies}

LlmOutcomes == {Raised} \cup {[raised |-> FALSE, text |-> t] : t \in ClassifierTexts}

-----------------------------------------------------------------------------
(* Classifier specification: one call of one classifier *)

InitClassifier ==
    /\ cVariant \in {"news", "maf", "classifier"}
    /\ cLlm = NotCalled
    /\ cOut = NotCalled
    /\ DedupIdle
    /\ RunIdle
    /\ JobIdle
    /\ PluginIdle
    /\ AdkIdle
    /\ PageIdle
    /\ MemIdle

RouteCategoriesNews(llm) ==
    /\ cVariant = "news"
    /\ cOut = NotCalled
    /\ cLlm' = llm
    /\ cOut' = route_categories(llm)
    /\ UNCHANGED <<cVariant, dedupVars, runVars, jobVars, pluginVars, adkVars, pageVars, memVars>>

RouteCategoriesMaf(llm) ==
    /\ cVariant = "maf"
    /\ cOut = NotCalled
    /\ cLlm' = llm
    /\ cOut' = route_categories_maf(llm)
    /\ UNCHANGED <<cVariant, dedupVars, runVars, jobVars, pluginVars, adkVars, pageVars, memVars>>

ClassifyQuery(llm) ==
    /\ cVariant = "classifier"
    /\ cOut = NotCalled
    /\ cLlm' = llm
    /\ cOut' = classify_query(llm)
    /\ UNCHANGED <<cVariant, dedupVars, runVars, jobVars, pluginVars, adkVars, pageVars, memVars>>

NextClassifier ==
    \/ \E llm \in LlmOutcomes : RouteCategoriesNews(llm)
    \/ \E llm \in LlmOutcomes : RouteCategoriesMaf(llm)
    \/ \E llm \in LlmOutcomes : ClassifyQuery(llm)

SpecClassifier == InitClassifier /\ [][NextClassifier]_vars

-----------------------------------------------------------------------------
(* Record universes of the helper specification *)

ArticleUrls == {NoneV, Str(<<"u">>), Str(<<"u", " ">>), Str(<<"v">>)}

ArticleTitles ==
    {NoneV, Str(<<"a">>), Str(<<" ", "A", ".">>), Str(<<"a", ",">>), Str(<<"b">>)}

Articles == [url : ArticleUrls, title : ArticleTitles]

\* the fields search_jobs emits, each None when the upstream field is absent
JobTitles == {Missing, NoneV, Str(<<"a">>), Str(<<"A", " ">>)}

JobCompanies == {NoneV, Str(<<"c">>), Str(<<"d">>)}

Jobs ==
    [id : {Missing}, title : JobTitles, company : JobCompanies,
     location : {Str(<<"s">>)}, description : {Str(<<"d", " ">>)}]
    \cup {[id |-> Missing, title |-> Str(<<"b">>), company |-> Str(<<"c">>),
           location |-> NoneV, description |-> EmptyStr]}

-----------------------------------------------------------------------------
(* Helper specification: a record list is built, then one helper is called *)

InitDedup ==
    /\ dDomain \in {"news", "jobs"}
    /\ dIn = <<>>
    /\ dOut = NotCalled
    /\ ClassifierIdle
    /\ RunIdle
    /\ JobIdle
    /\ PluginIdle
    /\ AdkIdle
    /\ PageIdle
    /\ MemIdle

AppendArticle(a) ==
    /\ dDomain = "news"
    /\ dOut = NotCalled
    /\ Len(dIn) < MaxRecords
    /\ dIn' = Append(dIn, a)
    /\ UNCHANGED <<dDomain, dOut, classifierVars, runVars, jobVars, pluginVars, adkVars, pageVars, memVars>>

AppendJob(j) ==
    /\ dDomain = "jobs"
    /\ dOut = NotCalled
    /\ Len(dIn) < MaxRecords
    /\ dIn' = Append(dIn, j)
    /\ UNCHANGED <<dDomain, dOut, classifierVars, runVars, jobVars, pluginVars, adkVars, pageVars, memVars>>

CallDedupArticles ==
    /\ dDomain = "news"
    /\ dOut = NotCalled
    /\ dOut' = [fn |-> "dedup_articles", raised |-> FALSE,
                val |-> dedup_articles(dIn), kept |-> KeptIndices(dIn)]
    /\ UNCHANGED <<dDomain, dIn, classifierVars, runVars, jobVars, pluginVars, adkVars, pageVars, memVars>>

CallDeduplicateJobs ==
    /\ dDomain = "jobs"
    /\ dOut = NotCalled
    /\ dOut' = [fn |-> "deduplicate_jobs"] @@ deduplicate_jobs(dIn)
    /\ UNCHANGED <<dDomain, dIn, classifierVars, runVars, jobVars, pluginVars, adkVars, pageVars, memVars>>

CallDeduplicateJobsSk ==
    /\ dDomain = "jobs"
    /\ dOut = NotCalled
    /\ dOut' = [fn |-> "deduplicate_jobs_sk"] @@ deduplicate_jobs_sk(dIn)
    /\ UNCHANGED <<dDomain, dIn, classifierVars, runVars, jobVars, pluginVars, adkVars, pageVars, memVars>>

CallCleanJobData ==
    /\ dDomain = "jobs"
    /\ dOut = NotCalled
    /\ dOut' = [fn |-> "clean_job_data"] @@ CleanAll(dIn)
    /\ UNCHANGED <<dDomain, dIn, classifierVars, runVars, jobVars, pluginVars, adkVars, pageVars, memVars>>

\* the cleaning and deduplication JobProOrchestrator.run applies to the
\* extracted jobs
CallCleanAndDedup ==
    /\ dDomain = "jobs"
    /\ dOut = NotCalled
    /\ dOut' = [fn |-> "clean_and_dedup"] @@ CleanAndDedup(dIn)
    /\ UNCHANGED <<dDomain, dIn, classifierVars, runVars, jobVars, pluginVars, adkVars, pageVars, memVars>>

NextDedup ==
    \/ \E a \in Articles : AppendArticle(a)
    \/ \E j \in Jobs : AppendJob(j)
    \/ CallDedupArticles
    \/ CallDeduplicateJobs
    \/ CallDeduplicateJobsSk
    \/ CallCleanJobData
    \/ CallCleanAndDedup

SpecDedup == InitDedup /\ [][NextDedup]_vars

-----------------------------------------------------------------------------
(* The news orchestrators: one request through route, fetch, dedup and     *)
(* summarize.                                                              *)
(*   "pro"      news      ProNewsOrchestrator.run                          *)
(*   "seq"      news      SequentialNewsOrchestrator.run                   *)
(*   "conc"     news      ConcurrentNewsOrchestrator.run                   *)
(*   "maf_seq"  news_maf  SequentialNewsOrchestrator.run                   *)
(*   "maf_conc" news_maf  ConcurrentNewsOrchestrator.run                   *)
(*   "workflow" news_maf  NewsGatheringWorkflow.execute                    *)

Orchestrators == {"pro", "seq", "conc", "maf_seq", "maf_conc", "workflow"}

BatchSize == 6

Pending == [k |-> "pending"]

\* article dicts as the category agents return them
Article(u, t) == [j |-> "dict", url |-> u, title |-> t, category |-> Missing]

ArtA == Article(Str(<<"u">>), Str(<<"a">>))
ArtB == Article(Str(<<"u">>), Str(<<"b">>))
ArtC == Article(Str(<<"v">>), Str(<<"B", ".">>))
ArtE == Article(NoneV, NoneV)
\* an article that already carries a category
ArtK == [Article(Str(<<"w">>), Str(<<"k">>)) EXCEPT !.category = JStr("world")]

\* a list of distinct articles numbered lo..hi
Numbered(lo, hi) ==
    [i \in 1..(hi - lo + 1) |->
        Article(Str(<<"w", ToString(lo + i - 1)>>), Str(<<"t", ToString(lo + i - 1)>>))]

FetchLists ==
    {<<>>, <<ArtA>>, <<ArtB>>, <<ArtC>>, <<ArtE>>, <<ArtK>>, <<ArtA, ArtC>>,
     <<ArtB, ArtA>>, Numbered(1, BatchSize + 1), Numbered(BatchSize + 2, 2 * BatchSize + 1)}

ErrorObj == [j |-> "obj", error |-> TRUE]      \* {"error": "..."}
PlainObj == [j |-> "obj", error |-> FALSE]     \* a dict without an error key

\* what one category agent can do: raise, or answer a text
FetchOutcomes ==
    {Raised}
    \cup {[raised |-> FALSE, text |-> <<JsonLine(JList(l))>>] : l \in FetchLists}
    \cup {[raised |-> FALSE, text |-> t] :
            t \in {<<>>, <<Junk>>, <<JsonLine(ErrorObj)>>, <<JsonLine(PlainObj)>>,
                   <<JsonLine(JNum)>>,
                   <<FenceLang, JsonLine(JList(<<ArtA>>)), Fence>>,
                   <<Fence, JsonLine(JList(<<ArtB>>))>>}}

\* what the summarizer agent can do: raise, answer a brief, answer nothing
SummarizerOutcomes ==
    {Raised, [raised |-> FALSE, text |-> "brief"], [raised |-> FALSE, text |-> ""]}

\* the router answers of a run: a failure, text that is not JSON, or the
\* first n vocabulary labels as targets
RouterLabels == <<"technology", "sports", "business", "science">>

RouterOutcomes ==
    {Raised, [raised |-> FALSE, text |-> <<Junk>>]}
    \cup {[raised |-> FALSE,
           text |-> <<JsonLine(JTargets(JList(
                        [i \in 1..n |-> JStr(RouterLabels[i])])))>>] :
            n \in 1..MaxTargets}

RECURSIVE Concat(_)
Concat(lists) == IF lists = <<>> THEN <<>> ELSE Head(lists) \o Concat(Tail(lists))

\* article.setdefault("category", category)
Tag(a, category) ==
    IF a.category = Missing THEN [a EXCEPT !.category = JStr(category)] ELSE a

\* json.loads and the isinstance(..., list) test of the news orchestrators
ParsePlain(text) ==
    LET p == JsonLoads(text)
    IN  IF p.ok /\ p.v.j = "list" THEN p.v.items ELSE <<>>

\* SequentialNewsOrchestrator._parse_article_response of news_maf
ParseMafSeq(text, category) ==
    LET p == JsonLoads(text)
    IN  IF ~p.ok THEN <<>>
        ELSE IF p.v.j # "list" THEN <<>>
        ELSE [i \in 1..Len(p.v.items) |->
                IF p.v.items[i].j = "dict" THEN Tag(p.v.items[i], category)
                ELSE p.v.items[i]]

\* Variant: a payload that is not a list is taken as a single record.
ParseMafLenient(text, category) ==
    LET p == JsonLoads(Unfence(text))
    IN  IF ~p.ok THEN <<>>
        ELSE IF p.v.j # "list"
        THEN <<Tag(Article(Str(<<"e">>), Str(<<"e">>)), category)>>
        ELSE [i \in 1..Len(p.v.items) |-> Tag(p.v.items[i], category)]

\* ConcurrentNewsOrchestrator._parse_article_response and
\* NewsGatheringWorkflow._parse_json_response of news_maf
ParseMaf(text, category) ==
    LET p == JsonLoads(Unfence(text))
    IN  IF ~p.ok THEN <<>>
        ELSE IF p.v.j = "obj" /\ p.v.error THEN <<>>
        ELSE IF p.v.j # "list" THEN <<>>
        ELSE LET dicts == SelectSeq(p.v.items, LAMBDA a : a.j = "dict")
             IN  [i \in 1..Len(dicts) |-> Tag(dicts[i], category)]

\* the records one category contributes to the list handed to dedup
Contribution(o, outcome, category) ==
    IF outcome.raised THEN <<>>
    ELSE IF o \in {"pro", "seq", "conc"} THEN ParsePlain(outcome.text)
    ELSE IF o = "maf_seq" THEN ParseMafSeq(outcome.text, category)
    ELSE IF outcome.text = <<>> THEN <<>>      \* "Empty response": skipped
    ELSE ParseMaf(outcome.text, category)

\* the categories are fetched one after the other (a for loop, or the direct
\* call for a single category); otherwise they are fetched concurrently
Sequential(o, n) == o \in {"seq", "maf_seq"} \/ (o \in {"maf_conc", "workflow"} /\ n = 1)

\* a failed category call that no try block of the orchestrator catches
Escapes(o, n) ==
    \/ o \in {"seq", "conc"}
    \/ o = "workflow"
    \/ (o = "maf_conc" /\ n >= 2)

Indices(n) == [i \in 1..n |-> i]

\* Variant: every orchestrator concatenates in completion order.
ConsumeInCompletionOrder(o, n, completion) == completion

\* the order in which the per-category results are concatenated: the order
\* of the targets for loops and asyncio.gather, the order in which the
\* framework delivers the results for the concurrent orchestrations
ConsumeOrder(o, n, completion) ==
    IF o \in {"pro", "seq", "maf_seq"} THEN Indices(n) ELSE completion

MergeOver(o, tgts, rsp, idxs) ==
    Concat([k \in 1..Len(idxs) |-> Contribution(o, rsp[idxs[k]], tgts[idxs[k]])])

NothingFound(o) ==
    IF o = "workflow" THEN "No unique articles after consolidation."
    ELSE "No articles found."

Text(t) == [raised |-> FALSE, text |-> t]
RaisedAt(stage) == [raised |-> TRUE, at |-> stage]

Init ==
    /\ orch \in Orchestrators
    /\ pc = "route"
    /\ targets = <<>>
    /\ resp = <<>>
    /\ order = <<>>
    /\ merged = NotCalled
    /\ unique = NotCalled
    /\ kept = <<>>
    /\ sumCalls = 0
    /\ sumArgs = <<>>
    /\ result = NotCalled
    /\ DedupIdle
    /\ ClassifierIdle
    /\ JobIdle
    /\ PluginIdle
    /\ AdkIdle
    /\ PageIdle
    /\ MemIdle

\* step 1 of run/execute: await route_categories(router, user_query)
Route(llm) ==
    LET out == IF orch \in {"pro", "seq", "conc"} THEN route_categories(llm)
               ELSE route_categories_maf(llm)
    IN  /\ pc = "route"
        /\ IF out.raised
           THEN /\ pc' = "done"
                /\ result' = RaisedAt("route")
                /\ UNCHANGED <<targets, resp>>
           ELSE IF out.val = <<>> /\ orch \in {"maf_seq", "maf_conc", "workflow"}
           THEN /\ pc' = "done"
                /\ result' = Text(IF orch = "workflow"
                                  THEN "Unable to determine relevant news categories."
                                  ELSE "No categories selected.")
                /\ UNCHANGED <<targets, resp>>
           ELSE /\ pc' = "fetch"
                /\ targets' = out.val
                /\ resp' = [i \in 1..Len(out.val) |-> Pending]
                /\ UNCHANGED result
        /\ UNCHANGED <<orch, order, merged, unique, kept, sumCalls, sumArgs>>
        /\ UNCHANGED <<dedupVars, classifierVars, jobVars, pluginVars, adkVars, pageVars, memVars>>

\* the part of run/execute between the last fetch and the first summarizer
\* call: concatenate, dedup_articles, the empty checks
Aggregated(rsp, completion) ==
    LET n == Len(targets)
        all == MergeOver(orch, targets, rsp, ConsumeOrder(orch, n, completion))
        direct == orch \in {"maf_conc", "workflow"} /\ n = 1
    IN  IF (\E i \in 1..n : rsp[i].raised) /\ Escapes(orch, n)
        THEN [pc |-> "done", result |-> RaisedAt("fetch"), merged |-> NotCalled]
        ELSE IF orch = "maf_conc" /\ direct /\ rsp[1].raised
        THEN [pc |-> "done", result |-> Text("Failed to process query: exc"),
              merged |-> NotCalled]
        ELSE IF orch = "maf_conc" /\ direct /\ all = <<>>
        THEN [pc |-> "done", result |-> Text("No articles found."), merged |-> NotCalled]
        ELSE IF orch = "workflow" /\ all = <<>>
        THEN [pc |-> "done", result |-> Text("No news articles found."),
              merged |-> NotCalled]
        ELSE IF dedup_articles(all) = <<>> /\ ~(orch = "maf_conc" /\ direct)
        THEN [pc |-> "done", result |-> Text(NothingFound(orch)), merged |-> Ret(all)]
        ELSE [pc |-> "summarize", result |-> NotCalled, merged |-> Ret(all)]

\* Variant: aggregate as soon as any fetch has answered, the unanswered
\* categories contributing nothing.
AfterFetchEager(rsp, completion) ==
    LET sofar == [i \in 1..Len(rsp) |->
                    IF rsp[i] = Pending THEN [raised |-> FALSE, text |-> <<>>]
                    ELSE rsp[i]]
        a == Aggregated(sofar, completion)
    IN  /\ pc' = a.pc
        /\ result' = a.result
        /\ merged' = a.merged
        /\ unique' = IF a.merged = NotCalled THEN NotCalled
                     ELSE Ret(dedup_articles(a.merged.val))
        /\ kept' = IF a.merged = NotCalled THEN <<>>
                   ELSE KeptIndices(a.merged.val)

AfterFetch(rsp, completion) ==
    IF \E i \in 1..Len(rsp) : rsp[i] = Pending
    THEN /\ UNCHANGED <<pc, merged, unique, kept, result>>
    ELSE LET a == Aggregated(rsp, completion)
         IN  /\ pc' = a.pc
             /\ result' = a.result
             /\ merged' = a.merged
             /\ unique' = IF a.merged = NotCalled THEN NotCalled
                          ELSE Ret(dedup_articles(a.merged.val))
             /\ kept' = IF a.merged = NotCalled THEN <<>>
                        ELSE KeptIndices(a.merged.val)

\* one category of a for loop (or the single direct call) answers
FetchNext(outcome) ==
    LET n == Len(targets)
        i == Len(order) + 1
        rsp == [resp EXCEPT ![i] = outcome]
    IN  /\ pc = "fetch"
        /\ Sequential(orch, n)
        /\ resp' = rsp
        /\ order' = Append(order, i)
        /\ IF outcome.raised /\ Escapes(orch, n)
           THEN /\ pc' = "done"
                /\ result' = RaisedAt("fetch")
                /\ UNCHANGED <<merged, unique, kept>>
           ELSE AfterFetch(rsp, Append(order, i))
        /\ UNCHANGED <<orch, targets, sumCalls, sumArgs>>
        /\ UNCHANGED <<dedupVars, classifierVars, jobVars, pluginVars, adkVars, pageVars, memVars>>

\* one of the concurrently running category agents answers
FetchAny(i, outcome) ==
    LET n == Len(targets)
        rsp == [resp EXCEPT ![i] = outcome]
    IN  /\ pc = "fetch"
        /\ ~Sequential(orch, n)
        /\ i \in 1..n
        /\ resp[i] = Pending
        /\ resp' = rsp
        /\ order' = Append(order, i)
        /\ AfterFetch(rsp, Append(order, i))
        /\ UNCHANGED <<orch, targets, sumCalls, sumArgs>>
        /\ UNCHANGED <<dedupVars, classifierVars, jobVars, pluginVars, adkVars, pageVars, memVars>>

\* Variant: one batch more than the articles fill.
BatchesPlusOne(n) == n \div BatchSize + 1

Batches(n) == (n + BatchSize - 1) \div BatchSize

\* batch = merged[i : i + 6]
Batch(list, i) ==
    SubSeq(list, i + 1, IF i + BatchSize < Len(list) THEN i + BatchSize ELSE Len(list))

\* one invocation of the summarizer agent
Summarize(outcome) ==
    /\ pc = "summarize"
    /\ sumCalls' = sumCalls + 1
    /\ sumArgs' = Append(sumArgs,
                         [articles |-> IF orch = "pro"
                                       THEN Batch(unique.val, BatchSize * sumCalls)
                                       ELSE unique.val])
    /\ IF orch = "pro"
       THEN IF outcome.raised
            THEN pc' = "done" /\ result' = RaisedAt("summarize")
            ELSE /\ pc' = IF sumCalls + 1 = Batches(Len(unique.val)) THEN "final"
                          ELSE "summarize"
                 /\ UNCHANGED result
       ELSE /\ pc' = "done"
            /\ result' =
                 IF outcome.raised
                 THEN CASE orch \in {"seq", "conc"} -> RaisedAt("summarize")
                        [] orch = "maf_seq" -> Text("header Failed to summarize: exc")
                        [] orch = "maf_conc" ->
                             Text("header Failed to summarize results: exc")
                        [] orch = "workflow" ->
                             Text("header Failed to generate summary: exc")
                 ELSE IF outcome.text = ""
                 THEN CASE orch \in {"seq", "conc"} -> Text("header")
                        [] orch = "workflow" -> Text("header No summary generated.")
                        [] OTHER -> Text("header Summarizer produced no output.")
                 ELSE Text("header brief")
    /\ UNCHANGED <<orch, targets, resp, order, merged, unique, kept>>
    /\ UNCHANGED <<dedupVars, classifierVars, jobVars, pluginVars, adkVars, pageVars, memVars>>

\* ProNewsOrchestrator: the final synthesis over the batch summaries
Synthesize(outcome) ==
    /\ pc = "final"
    /\ sumCalls' = sumCalls + 1
    /\ sumArgs' = Append(sumArgs, [combined |-> Len(sumArgs)])
    /\ pc' = "done"
    /\ result' = IF outcome.raised THEN RaisedAt("summarize") ELSE Text("header brief")
    /\ UNCHANGED <<orch, targets, resp, order, merged, unique, kept>>
    /\ UNCHANGED <<dedupVars, classifierVars, jobVars, pluginVars, adkVars, pageVars, memVars>>

Next ==
    \/ \E llm \in RouterOutcomes : Route(llm)
    \/ \E outcome \in FetchOutcomes : FetchNext(outcome)
    \/ \E i \in 1..MaxTargets, outcome \in FetchOutcomes : FetchAny(i, outcome)
    \/ \E outcome \in SummarizerOutcomes : Summarize(outcome)
    \/ \E outcome \in SummarizerOutcomes : Synthesize(outcome)

Spec == Init /\ [][Next]_vars

-----------------------------------------------------------------------------
(* JobProOrchestrator.run of job_recommendation: extract, recommend,       *)
(* summarize                                                               *)

Job(t, c) ==
    [id |-> Missing, title |-> t, company |-> c,
     location |-> Str(<<"s">>), description |-> Str(<<"d", " ">>)]

JobA == Job(Str(<<"a">>), Str(<<"c">>))
JobA2 == Job(Str(<<"A", " ">>), Str(<<"c">>))
JobD == Job(Str(<<"a">>), Str(<<"d">>))
JobB == Job(Str(<<"b">>), Str(<<"c">>))
JobNoneTitle == Job(NoneV, Str(<<"c">>))

JobLists ==
    {<<>>, <<JobA>>, <<JobB>>, <<JobD>>, <<JobA, JobA2>>, <<JobA, JobD>>,
     <<JobA, JobB>>, <<JobB, JobA>>, <<JobB, JobD>>, <<JobNoneTitle>>}

\* the content of one message of the extractor or the recommender agent
JobTexts ==
    {<<Junk>>, <<JsonLine(JNum)>>} \cup {<<JsonLine(JList(l))>> : l \in JobLists}

\* what an agent's invoke can do: raise, yield no message, yield one message
JobAgentOutcomes ==
    {Raised, [raised |-> FALSE, msgs |-> <<>>]}
    \cup {[raised |-> FALSE, msgs |-> <<t>>] : t \in JobTexts}

JobSummaryOutcomes ==
    {Raised, [raised |-> FALSE, msgs |-> <<>>], [raised |-> FALSE, msgs |-> <<"s">>]}

\* try: jobs.extend(json.loads(msg.content.content)) except Exception: continue
ExtendFrom(text) ==
    LET p == JsonLoads(text)
    IN  IF p.ok /\ p.v.j = "list" THEN p.v.items ELSE <<>>

\* the async-for loop over the agent's messages
Collected(msgs) == Concat([i \in 1..Len(msgs) |-> ExtendFrom(msgs[i])])

NoRecommendations == "No job recommendations found."

InitJob ==
    /\ jPc = "extract"
    /\ jJobs = NotCalled
    /\ jRecommended = NotCalled
    /\ jSummaries = 0
    /\ jRecCalls = 0
    /\ jSumCalls = 0
    /\ jResult = NotCalled
    /\ DedupIdle
    /\ ClassifierIdle
    /\ RunIdle
    /\ PluginIdle
    /\ AdkIdle
    /\ PageIdle
    /\ MemIdle

\* Step 1: self.extractor.invoke(user_profile), clean, dedup
ExtractJobs(outcome) ==
    /\ jPc = "extract"
    /\ IF outcome.raised
       THEN jPc' = "done" /\ jResult' = RaisedAt("extract") /\ UNCHANGED jJobs
       ELSE LET out == CleanAndDedup(Collected(outcome.msgs))
            IN  IF out.raised
                THEN jPc' = "done" /\ jResult' = RaisedAt("extract")
                     /\ UNCHANGED jJobs
                ELSE jPc' = "recommend" /\ jJobs' = Ret(out.val)
                     /\ UNCHANGED jResult
    /\ UNCHANGED <<jRecommended, jSummaries, jRecCalls, jSumCalls>>
    /\ UNCHANGED <<dedupVars, classifierVars, runVars, pluginVars, adkVars, pageVars, memVars>>

\* Step 2: self.recommender.invoke(...), clean, dedup; an empty recommended
\* list leaves the summarizer loop without an iteration
RecommendJobs(outcome) ==
    /\ jPc = "recommend"
    /\ jRecCalls' = jRecCalls + 1
    /\ IF outcome.raised
       THEN jPc' = "done" /\ jResult' = RaisedAt("recommend")
            /\ UNCHANGED jRecommended
       ELSE LET out == CleanAndDedup(Collected(outcome.msgs))
            IN  IF out.raised
                THEN jPc' = "done" /\ jResult' = RaisedAt("recommend")
                     /\ UNCHANGED jRecommended
                ELSE IF out.val = <<>>
                THEN jPc' = "done" /\ jResult' = Text(NoRecommendations)
                     /\ jRecommended' = Ret(out.val)
                ELSE jPc' = "summarize" /\ jRecommended' = Ret(out.val)
                     /\ UNCHANGED jResult
    /\ UNCHANGED <<jJobs, jSummaries, jSumCalls>>
    /\ UNCHANGED <<dedupVars, classifierVars, runVars, pluginVars, adkVars, pageVars, memVars>>

\* Step 3: one iteration of the loop over recommended, and the return
SummarizeJob(outcome) ==
    /\ jPc = "summarize"
    /\ jSumCalls' = jSumCalls + 1
    /\ IF outcome.raised
       THEN jPc' = "done" /\ jResult' = RaisedAt("summarize")
            /\ UNCHANGED jSummaries
       ELSE /\ jSummaries' = jSummaries + Len(outcome.msgs)
            /\ IF jSumCalls + 1 < Len(jRecommended.val)
               THEN UNCHANGED <<jPc, jResult>>
               ELSE /\ jPc' = "done"
                    /\ jResult' = IF jSummaries + Len(outcome.msgs) = 0
                                  THEN Text(NoRecommendations)
                                  ELSE Text("header summaries")
    /\ UNCHANGED <<jJobs, jRecommended, jRecCalls>>
    /\ UNCHANGED <<dedupVars, classifierVars, runVars, pluginVars, adkVars, pageVars, memVars>>

NextJob ==
    \/ \E outcome \in JobAgentOutcomes : ExtractJobs(outcome)
    \/ \E outcome \in JobAgentOutcomes : RecommendJobs(outcome)
    \/ \E outcome \in JobSummaryOutcomes : SummarizeJob(outcome)

SpecJob == InitJob /\ [][NextJob]_vars

-----------------------------------------------------------------------------
(* The search collaborators: one call of one plugin function              *)
(*   "fetch_top_headlines"      news      NewsPlugin.fetch_top_headlines   *)
(*   "fetch_top_headlines_maf"  news_maf  fetch_top_headlines              *)
(*   "search_jobs"              job_recommendation  JobBoardPlugin         *)
(*   "search_jobs_maf"          job_recommendation_maf  search_jobs        *)
(*   "search_flights", "search_hotels"  ghc_travel_planner                 *)

Collaborators ==
    {"fetch_top_headlines", "fetch_top_headlines_maf", "search_jobs",
     "search_jobs_maf", "search_flights", "search_hotels"}

MaxResults == 4

TopFlights == 3
TopHotels == 4
MockFlights == 3
MockHotels == 4

Min(a, b) == IF a < b THEN a ELSE b

\* requests.get / raise_for_status / resp.json(): a connection failure or
\* timeout, an HTTP error status, a null body, or an object that holds n
\* results under the result key or lacks the key
WordLimit == 100

\* a description of n words separated by sep; the tokens are words "w" and
\* whitespace
WordsSep(n, sep) == [i \in 1..(2 * n - 1) |-> IF i % 2 = 1 THEN "w" ELSE sep]

\* the description field of the upstream results: absent, empty, short, at
\* the limit, and over it, with single spaces or newlines between the words
Descriptions ==
    {NoneV, EmptyStr}
    \cup {Str(WordsSep(n, sep)) :
            n \in {1, WordLimit, WordLimit + 1, WordLimit + 2}, sep \in {" ", "\n"}}

HttpOutcomes ==
    {[k |-> "network"], [k |-> "status"], [k |-> "null"], [k |-> "nokey"]}
    \cup {[k |-> "results", n |-> n, description |-> d] :
            n \in 0..MaxResults, d \in Descriptions}

\* desc.split()
Split(desc) == SelectSeq(desc, LAMBDA tok : tok = "w")

\* " ".join(words)
Join(words) == [i \in 1..(2 * Len(words) - 1) |-> IF i % 2 = 1 THEN words[(i + 1) \div 2] ELSE " "]

\* Variant: the description is cut without the marker.
TruncateNoMarker(d) ==
    LET desc == OrEmpty(d).s
        desc_words == Split(desc)
    IN  IF Len(desc_words) > WordLimit
        THEN Join(SubSeq(desc_words, 1, WordLimit))
        ELSE desc

\* desc = job.get("description") or ""; cut to 100 words plus "..."
Truncate(d) ==
    LET desc == OrEmpty(d).s
        desc_words == Split(desc)
    IN  IF Len(desc_words) > WordLimit
        THEN Append(Join(SubSeq(desc_words, 1, WordLimit)), "...")
        ELSE desc

Limits == {2, 6}

ResultCount(http) == IF http.k = "results" THEN http.n ELSE 0

\* the JSON text returned: a record list (mock or fetched) or an error object
Records(n, mock) == Ret([kind |-> "records", n |-> n, mock |-> mock])
ErrorObject == Ret([kind |-> "error"])

\* the job list of search_jobs, with the description its records carry
JobRecords(http) ==
    IF http.k = "results" /\ http.n > 0
    THEN Ret([kind |-> "records", n |-> http.n, mock |-> FALSE,
              description |-> Truncate(http.description)])
    ELSE Records(0, FALSE)

RequestException(http) == http.k \in {"network", "status"}

\* NewsPlugin.fetch_top_headlines of news
fetch_top_headlines(key, limit, http) ==
    IF ~key THEN Raised                                     \* ValueError
    ELSE IF RequestException(http) THEN ErrorObject
    ELSE Records(Min(ResultCount(http), limit), FALSE)

\* fetch_top_headlines of news_maf
fetch_top_headlines_maf(key, limit, http) ==
    IF ~key THEN ErrorObject
    ELSE IF RequestException(http) THEN ErrorObject
    ELSE Records(Min(ResultCount(http), limit), FALSE)

\* JobBoardPlugin.search_jobs of job_recommendation
search_jobs(key, limit, http) ==
    IF ~key THEN Raised                                     \* ValueError
    ELSE IF RequestException(http) THEN ErrorObject
    ELSE JobRecords(http)

\* search_jobs of job_recommendation_maf
search_jobs_maf(key, limit, http) ==
    IF ~key THEN ErrorObject
    ELSE IF RequestException(http) THEN ErrorObject
    ELSE JobRecords(http)

\* search_flights: mock_flights is bound only on the path without API key,
\* so the fallbacks of the path with a key raise UnboundLocalError
search_flights(key, limit, http) ==
    IF ~key THEN Records(MockFlights, TRUE)
    ELSE IF RequestException(http) THEN Raised
    ELSE IF ResultCount(http) = 0 THEN Raised
    ELSE Records(Min(ResultCount(http), TopFlights), FALSE)

\* search_hotels: mock_hotels likewise
search_hotels(key, limit, http) ==
    IF ~key THEN Records(MockHotels, TRUE)
    ELSE IF RequestException(http) THEN Raised
    ELSE IF ResultCount(http) = 0 THEN Raised
    ELSE Records(Min(ResultCount(http), TopHotels), FALSE)

CallOf(fn, key, limit, http) ==
    CASE fn = "fetch_top_headlines" -> fetch_top_headlines(key, limit, http)
      [] fn = "fetch_top_headlines_maf" -> fetch_top_headlines_maf(key, limit, http)
      [] fn = "search_jobs" -> search_jobs(key, limit, http)
      [] fn = "search_jobs_maf" -> search_jobs_maf(key, limit, http)
      [] fn = "search_flights" -> search_flights(key, limit, http)
      [] fn = "search_hotels" -> search_hotels(key, limit, http)

InitPlugin ==
    /\ pFn \in Collaborators
    /\ pKey \in BOOLEAN
    /\ pLimit \in Limits
    /\ pHttp = NotCalled
    /\ pOut = NotCalled
    /\ DedupIdle
    /\ ClassifierIdle
    /\ RunIdle
    /\ JobIdle
    /\ AdkIdle
    /\ PageIdle
    /\ MemIdle

\* a call without API key: no request is made
CallWithoutKey ==
    /\ pOut = NotCalled
    /\ ~pKey
    /\ pOut' = CallOf(pFn, FALSE, pLimit, [k |-> "network"])
    /\ UNCHANGED <<pFn, pKey, pLimit, pHttp>>
    /\ UNCHANGED <<dedupVars, classifierVars, runVars, jobVars, adkVars, pageVars, memVars>>

\* a call with API key: the request is made and does http
CallWithKey(http) ==
    /\ pOut = NotCalled
    /\ pKey
    /\ pHttp' = http
    /\ pOut' = CallOf(pFn, TRUE, pLimit, http)
    /\ UNCHANGED <<pFn, pKey, pLimit>>
    /\ UNCHANGED <<dedupVars, classifierVars, runVars, jobVars, adkVars, pageVars, memVars>>

NextPlugin ==
    \/ CallWithoutKey
    \/ \E http \in HttpOutcomes : CallWithKey(http)

SpecPlugin == InitPlugin /\ [][NextPlugin]_vars

-----------------------------------------------------------------------------
(* multi_agent_tests_with_ADK/job_extractor_ADK.py: ADK_Environment *)

Extractor == "SerpApiJobsExtractor"
Analyst == "JMAA_Global"

\* the two agents of the simulation and an id that is never registered
AgentIds == {Extractor, Analyst, "Unknown"}

MaxSends == 3

\* d[k] of a defaultdict(list), read without the insertion
Queue(d, k) == IF k \in DOMAIN d THEN d[k] ELSE <<>>

\* d[k] = v
Put(d, k, v) == [x \in DOMAIN d \cup {k} |-> IF x = k THEN v ELSE d[x]]

\* {'sender': sender_id, 'content': content}
Envelope(sender_id, content) == [sender |-> sender_id, content |-> content]

NewJobData(jobs) ==
    [type |-> "new_job_data", source |-> "SerpApi_GoogleJobs", jobs |-> jobs]

EnvContents == {NewJobData(<<"j1">>), NewJobData(<<"j1", "j2">>), [type |-> "status"]}

\* send_message(sender_id, receiver_id, content): the queues afterwards
send_message(agents, queues, sender_id, receiver_id, content) ==
    IF receiver_id \in agents
    THEN Put(queues, receiver_id,
             Append(Queue(queues, receiver_id), Envelope(sender_id, content)))
    ELSE queues

\* Variant: the queue is returned and left as it is.
GetWithoutClear(queues, agent_id) ==
    [messages |-> Queue(queues, agent_id),
     queues |-> Put(queues, agent_id, Queue(queues, agent_id))]

\* get_messages_for_agent(agent_id): the returned list and the queues afterwards
get_messages_for_agent(queues, agent_id) ==
    [messages |-> Queue(queues, agent_id), queues |-> Put(queues, agent_id, <<>>)]

InitEnv ==
    /\ EnvIdle
    /\ SimIdle
    /\ DedupIdle
    /\ ClassifierIdle
    /\ RunIdle
    /\ JobIdle
    /\ PluginIdle
    /\ PageIdle
    /\ MemIdle

\* register_agent(agent_instance)
RegisterAgent(id) ==
    /\ sTurn = "none"
    /\ eAgents' = eAgents \cup {id}
    /\ UNCHANGED <<eQueues, eSent, eGot, eSends, simVars>>
    /\ UNCHANGED <<dedupVars, classifierVars, runVars, jobVars, pluginVars, pageVars, memVars>>

SendMessage(sender_id, receiver_id, content) ==
    /\ sTurn = "none"
    /\ eSends < MaxSends
    /\ eSends' = eSends + 1
    /\ eQueues' = send_message(eAgents, eQueues, sender_id, receiver_id, content)
    /\ eSent' = IF receiver_id \in eAgents
                THEN Put(eSent, receiver_id,
                         Append(Queue(eSent, receiver_id), Envelope(sender_id, content)))
                ELSE eSent
    /\ UNCHANGED <<eAgents, eGot, simVars>>
    /\ UNCHANGED <<dedupVars, classifierVars, runVars, jobVars, pluginVars, pageVars, memVars>>

GetMessages(agent_id) ==
    /\ sTurn = "none"
    /\ LET r == get_messages_for_agent(eQueues, agent_id)
       IN  /\ eQueues' = r.queues
           /\ eGot' = Put(eGot, agent_id, Queue(eGot, agent_id) \o r.messages)
    /\ UNCHANGED <<eAgents, eSent, eSends, simVars>>
    /\ UNCHANGED <<dedupVars, classifierVars, runVars, jobVars, pluginVars, pageVars, memVars>>

NextEnv ==
    \/ \E id \in {Extractor, Analyst} : RegisterAgent(id)
    \/ \E sender_id \in {Extractor, Analyst}, receiver_id \in AgentIds,
          content \in EnvContents : SendMessage(sender_id, receiver_id, content)
    \/ \E agent_id \in AgentIds : GetMessages(agent_id)

SpecEnv == InitEnv /\ [][NextEnv]_vars

-----------------------------------------------------------------------------
(* job_extractor_ADK.py: run_simulation with the extractor and the analyst *)

MaxSteps == 3

\* what _extract_jobs can return for one trigger
ExtractedLists == SeqsUpTo({"j1", "j2"}, 2)

Trigger(query) == [type |-> "trigger_extraction", query |-> query]

\* SerpApiJobsExtractorAgent.deliberate: the percepts afterwards
ExtractorDeliberate(due) ==
    IF due THEN <<Trigger("Software Engineer"), Trigger("Data Scientist")>> ELSE <<>>

\* SerpApiJobsExtractorAgent.act: one message per trigger with a non-empty
\* extraction, in the order of the percepts
RECURSIVE ExtractorAct(_, _, _, _)
ExtractorAct(percepts, found, i, queues) ==
    IF i > Len(percepts) THEN queues
    ELSE ExtractorAct(percepts, found, i + 1,
            IF percepts[i].type = "trigger_extraction" /\ found[i] # <<>>
            THEN send_message(eAgents, queues, Extractor, Analyst, NewJobData(found[i]))
            ELSE queues)

\* JobMarketAnalystAgent.deliberate: the loop over self.percepts; percept['type']
\* raises KeyError for a dict without that key
RECURSIVE AnalystDeliberate(_, _, _)
AnalystDeliberate(percepts, i, total) ==
    IF i > Len(percepts) THEN [raised |-> FALSE, total |-> total]
    ELSE IF "type" \notin DOMAIN percepts[i] THEN [raised |-> TRUE, total |-> total]
    ELSE IF percepts[i].type = "new_job_data"
    THEN IF "content" \notin DOMAIN percepts[i]
         THEN [raised |-> TRUE, total |-> total]
         ELSE AnalystDeliberate(percepts, i + 1,
                                total + Len(percepts[i].content.jobs))
    ELSE AnalystDeliberate(percepts, i + 1, total)

\* the __main__ block: both agents registered, then run_simulation
InitSim ==
    /\ eAgents = {Extractor, Analyst}
    /\ eQueues = EmptyDict /\ eSent = EmptyDict /\ eGot = EmptyDict /\ eSends = 0
    /\ sTurn = Extractor /\ sStep = 0
    /\ xLast = "never" /\ xPercepts = <<>> /\ xCount = 0
    /\ aPercepts = <<>> /\ aTotal = 0
    /\ sRaised = FALSE /\ sSentJobs = 0
    /\ DedupIdle
    /\ ClassifierIdle
    /\ RunIdle
    /\ JobIdle
    /\ PluginIdle
    /\ PageIdle
    /\ MemIdle

\* the extractor's perceive, deliberate and act of one simulation step
ExtractorTurn(hoursPassed, found) ==
    /\ sTurn = Extractor
    /\ sStep < MaxSteps
    /\ LET r == get_messages_for_agent(eQueues, Extractor)
           percepts == ExtractorDeliberate(xLast = "never" \/ hoursPassed)
           sent == {i \in 1..Len(percepts) : found[i] # <<>>}
       IN  /\ xPercepts' = percepts
           /\ eQueues' = ExtractorAct(percepts, found, 1, r.queues)
           /\ xLast' = IF percepts = <<>> THEN xLast ELSE "set"
           /\ xCount' = IF sent = {} THEN xCount
                        ELSE Len(found[CHOOSE i \in sent : \A k \in sent : k <= i])
           /\ sSentJobs' = sSentJobs
                + (IF 1 \in sent THEN Len(found[1]) ELSE 0)
                + (IF 2 \in sent THEN Len(found[2]) ELSE 0)
    /\ sTurn' = Analyst
    /\ UNCHANGED <<eAgents, eSent, eGot, eSends, sStep, aPercepts, aTotal, sRaised>>
    /\ UNCHANGED <<dedupVars, classifierVars, runVars, jobVars, pluginVars, pageVars, memVars>>

\* the analyst's perceive, deliberate and act of one simulation step; an
\* exception leaves run_simulation
AnalystTurn ==
    /\ sTurn = Analyst
    /\ LET r == get_messages_for_agent(eQueues, Analyst)
           percepts == aPercepts \o r.messages
           d == AnalystDeliberate(percepts, 1, aTotal)
       IN  /\ eQueues' = r.queues
           /\ aTotal' = d.total
           /\ sRaised' = d.raised
           /\ aPercepts' = IF d.raised THEN percepts ELSE <<>>
           /\ sStep' = IF d.raised THEN sStep ELSE sStep + 1
           /\ sTurn' = IF d.raised \/ sStep + 1 = MaxSteps THEN "done" ELSE Extractor
    /\ UNCHANGED <<eAgents, eSent, eGot, eSends, xLast, xPercepts, xCount, sSentJobs>>
    /\ UNCHANGED <<dedupVars, classifierVars, runVars, jobVars, pluginVars, pageVars, memVars>>

NextSim ==
    \/ \E hoursPassed \in BOOLEAN, found \in [1..2 -> ExtractedLists] :
          ExtractorTurn(hoursPassed, found)
    \/ AnalystTurn

SpecSim == InitSim /\ [][NextSim]_vars

-----------------------------------------------------------------------------
(* job_extractor_ADK.py: _extract_jobs; serpapi_job_tester.py:             *)
(* get_software_engineer_jobs                                              *)

\* "if len(jobs_on_page) < 10: break"
PageFull == 10

PageSizes == {0, 1, PageFull - 1, PageFull, PageFull + 1}

NumResults == {1, PageFull + 2}

\* what one request can bring: an HTTP error status whose body is JSON or
\* not, a failed request, a body that is not JSON, an answer without
\* jobs_results, a jobs_results that is not a list of dicts, and a page of
\* n items with or without the token of the next page
PageAnswers ==
    {[k |-> "http_error", json |-> b] : b \in BOOLEAN}
    \cup {[k |-> "request_error"], [k |-> "bad_json"], [k |-> "no_key"],
          [k |-> "bad_items"]}
    \cup {[k |-> "page", n |-> n, token |-> t] : n \in PageSizes, t \in BOOLEAN}

\* the items of the page that follows the pages received so far
PageItems(pages, n) ==
    LET p == IF pages = <<>> THEN 1 ELSE pages[Len(pages)][1] + 1
    IN  [i \in 1..n |-> <<p, i>>]

\* all_jobs[:num_results]
Upto(all_jobs, num_results) ==
    SubSeq(all_jobs, 1, IF Len(all_jobs) < num_results THEN Len(all_jobs) ELSE num_results)

\* one iteration of the loop of _extract_jobs: all_jobs afterwards, the
\* offset added to start_page, and how the iteration ends
AdkIteration(all_jobs, num_results, answer) ==
    IF answer.k = "page" /\ answer.n > 0
    THEN [all |-> all_jobs \o PageItems(gPages, answer.n), offset |-> answer.n,
          exit |-> IF answer.n < PageFull THEN "break" ELSE "continue"]
    ELSE [all |-> all_jobs, offset |-> 0, exit |-> "break"]

\* one iteration of the loop of get_software_engineer_jobs; the handler of
\* HTTPError calls e.response.json(), which raises on a body that is not JSON
TesterIteration(all_jobs, num_results, answer) ==
    IF answer.k = "page" /\ answer.n > 0
    THEN LET all == Upto(all_jobs \o PageItems(gPages, answer.n), num_results)
         IN  [all |-> all,
              token |-> IF answer.token THEN Str(<<"t">>) ELSE NoneV,
              exit |-> IF ~answer.token \/ Len(all) >= num_results
                       THEN "break" ELSE "continue"]
    ELSE IF answer.k = "http_error" /\ ~answer.json
    THEN [all |-> all_jobs, token |-> gToken, exit |-> "raise"]
    ELSE [all |-> all_jobs, token |-> gToken, exit |-> "break"]

InitPage ==
    /\ gVariant \in {"adk", "tester"}
    /\ gNum \in NumResults
    /\ gPc = "loop"
    /\ gAll = <<>> /\ gToken = NoneV /\ gStart = 0 /\ gPages = <<>>
    /\ gOut = NotCalled
    /\ DedupIdle
    /\ ClassifierIdle
    /\ RunIdle
    /\ JobIdle
    /\ PluginIdle
    /\ AdkIdle
    /\ MemIdle

\* after an iteration: leave by exception, return after a break or when the
\* loop condition len(all_jobs) < num_results fails, or go round again
AfterIteration(it) ==
    /\ gAll' = it.all
    /\ IF it.exit = "raise"
       THEN gPc' = "raised" /\ gOut' = Raised
       ELSE IF it.exit = "break" \/ Len(it.all) >= gNum
       THEN gPc' = "returned" /\ gOut' = Ret(Upto(it.all, gNum))
       ELSE gPc' = "loop" /\ UNCHANGED gOut

FetchPageAdk(answer) ==
    /\ gVariant = "adk"
    /\ gPc = "loop"
    /\ LET it == AdkIteration(gAll, gNum, answer)
       IN  /\ AfterIteration(it)
           /\ gStart' = gStart + it.offset
    /\ gPages' = IF answer.k = "page" THEN gPages \o PageItems(gPages, answer.n)
                 ELSE gPages
    /\ UNCHANGED <<gVariant, gNum, gToken>>
    /\ UNCHANGED <<dedupVars, classifierVars, runVars, jobVars, pluginVars, adkVars, memVars>>

FetchPageTester(answer) ==
    /\ gVariant = "tester"
    /\ gPc = "loop"
    /\ LET it == TesterIteration(gAll, gNum, answer)
       IN  /\ AfterIteration(it)
           /\ gToken' = it.token
    /\ gPages' = IF answer.k = "page" THEN gPages \o PageItems(gPages, answer.n)
                 ELSE gPages
    /\ UNCHANGED <<gVariant, gNum, gStart>>
    /\ UNCHANGED <<dedupVars, classifierVars, runVars, jobVars, pluginVars, adkVars, memVars>>

NextPage ==
    \/ \E answer \in PageAnswers : FetchPageAdk(answer)
    \/ \E answer \in PageAnswers : FetchPageTester(answer)

SpecPage == InitPage /\ [][NextPage]_vars

\* every started iteration ends: requests.get has a timeout
FairSpecPage == SpecPage /\ WF_vars(NextPage)

-----------------------------------------------------------------------------
(* ghc_travel_planner/src/utils/memory.py *)

PrefKeys == {"budget", "travel_dates"}

PrefValues == {Str(<<"x">>), Str(<<"y">>)}

Defaults == {NoneV, Str(<<"d">>)}

\* self._memory[key] = value
store_preference(memory, key, value) == Put(memory, key, value)

\* self._memory.get(key, default)
get_preference(memory, key, default) ==
    IF key \in DOMAIN memory THEN memory[key] ELSE default

\* Variant: the dict itself is handed out.
GetAllAlias(memory) == [alias |-> TRUE, dict |-> memory]

\* self._memory.copy(): a new dict with the same items
get_all_preferences(memory) == [alias |-> FALSE, dict |-> memory]

\* self._memory.clear()
clear(memory) == EmptyDict

\* _travel_memory = TravelMemory(): the _memory of the new instance
reset_memory == EmptyDict

\* the dict a caller holds, after the store's dict changed in place
Held(copy, memory) ==
    IF copy # NotCalled /\ copy.alias THEN [copy EXCEPT !.dict = memory] ELSE copy

InitMemory ==
    /\ MemIdle
    /\ DedupIdle
    /\ ClassifierIdle
    /\ RunIdle
    /\ JobIdle
    /\ PluginIdle
    /\ AdkIdle
    /\ PageIdle

\* get_memory().store_preference(key, value)
StorePreference(key, value) ==
    /\ mMemory' = store_preference(mMemory, key, value)
    /\ mLast' = Put(mLast, key, value)
    /\ mCopy' = Held(mCopy, mMemory')
    /\ UNCHANGED mGot
    /\ UNCHANGED <<dedupVars, classifierVars, runVars, jobVars, pluginVars, adkVars, pageVars>>

\* get_memory().get_preference(key, default)
GetPreference(key, default) ==
    /\ mGot' = [key |-> key, val |-> get_preference(mMemory, key, default),
                expected |-> IF key \in DOMAIN mLast THEN mLast[key] ELSE default]
    /\ UNCHANGED <<mMemory, mLast, mCopy>>
    /\ UNCHANGED <<dedupVars, classifierVars, runVars, jobVars, pluginVars, adkVars, pageVars>>

\* get_memory().get_all_preferences()
GetAllPreferences ==
    /\ mCopy' = get_all_preferences(mMemory)
    /\ UNCHANGED <<mMemory, mLast, mGot>>
    /\ UNCHANGED <<dedupVars, classifierVars, runVars, jobVars, pluginVars, adkVars, pageVars>>

\* the caller writes into the dict it got: d[key] = value
MutateCopy(key, value) ==
    /\ mCopy # NotCalled
    /\ mCopy' = [mCopy EXCEPT !.dict = Put(@, key, value)]
    /\ mMemory' = IF mCopy.alias THEN Put(mMemory, key, value) ELSE mMemory
    /\ UNCHANGED <<mLast, mGot>>
    /\ UNCHANGED <<dedupVars, classifierVars, runVars, jobVars, pluginVars, adkVars, pageVars>>

\* get_memory().clear()
Clear ==
    /\ mMemory' = clear(mMemory)
    /\ mLast' = EmptyDict
    /\ mCopy' = Held(mCopy, mMemory')
    /\ UNCHANGED mGot
    /\ UNCHANGED <<dedupVars, classifierVars, runVars, jobVars, pluginVars, adkVars, pageVars>>

\* reset_memory(): a dict handed out before belongs to the old instance
ResetMemory ==
    /\ mMemory' = reset_memory
    /\ mLast' = EmptyDict
    /\ mCopy' = IF mCopy = NotCalled THEN mCopy ELSE [mCopy EXCEPT !.alias = FALSE]
    /\ UNCHANGED mGot
    /\ UNCHANGED <<dedupVars, classifierVars, runVars, jobVars, pluginVars, adkVars, pageVars>>

NextMemory ==
    \/ \E key \in PrefKeys, value \in PrefValues : StorePreference(key, value)
    \/ \E key \in PrefKeys, default \in Defaults : GetPreference(key, default)
    \/ GetAllPreferences
    \/ \E key \in PrefKeys, value \in PrefValues : MutateCopy(key, value)
    \/ Clear
    \/ ResetMemory

SpecMemory == InitMemory /\ [][NextMemory]_vars

-----------------------------------------------------------------------------
(* Vocabulary of the deduplication claims *)

NoKey(a) == ArticleUrl(a) = <<>> /\ ArticleTitle(a) = <<>>

SameUrl(a, b) == ArticleUrl(a) # <<>> /\ ArticleUrl(a) = ArticleUrl(b)

SameTitle(a, b) == ArticleTitle(a) # <<>> /\ ArticleTitle(a) = ArticleTitle(b)

ShareKey(a, b) == SameUrl(a, b) \/ SameTitle(a, b)

DedupArticlesDone == dOut # NotCalled /\ dOut.fn = "dedup_articles"

KeptSet == {dOut.kept[k] : k \in 1..Len(dOut.kept)}

RECURSIVE IsSubseq(_, _)
IsSubseq(s, t) ==
    IF s = <<>> THEN TRUE
    ELSE IF t = <<>> THEN FALSE
    ELSE IF Head(s) = Head(t) THEN IsSubseq(Tail(s), Tail(t))
    ELSE IsSubseq(s, Tail(t))

Range(s) == {s[i] : i \in 1..Len(s)}

\* C5 as stated: a record is dropped exactly when it has no key or shares a
\* URL or normalized title with ANY earlier record of the input (kept or not),
\* and the first occurrence of every key is retained.
C5_AsStated ==
    DedupArticlesDone =>
        \A i \in 1..Len(dIn) :
            (i \notin KeptSet) <=>
                \/ NoKey(dIn[i])
                \/ \E j \in 1..(i - 1) : ShareKey(dIn[i], dIn[j])

\* C5 amended: a record is dropped exactly when it has no key or shares a
\* non-empty URL or non-empty normalized title with an earlier record that was
\* itself KEPT; once a record is kept, every later record sharing one of its
\* keys is dropped, so at most one record per key is retained.
C5_DropIffKeptEarlier ==
    DedupArticlesDone =>
        /\ \A i \in 1..Len(dIn) :
              (i \notin KeptSet) <=>
                  \/ NoKey(dIn[i])
                  \/ \E j \in KeptSet : j < i /\ ShareKey(dIn[i], dIn[j])
        /\ \A i, j \in KeptSet : i # j => ~ShareKey(dIn[i], dIn[j])
        /\ dOut.val = [k \in 1..Len(dOut.kept) |-> dIn[dOut.kept[k]]]

\* a record was kept although an earlier, dropped record carries its title
C5_Witness ==
    /\ DedupArticlesDone
    /\ \E i \in KeptSet : \E j \in 1..(i - 1) :
          j \notin KeptSet /\ ShareKey(dIn[i], dIn[j])
    /\ \E i \in 1..Len(dIn) : i \notin KeptSet /\ ~NoKey(dIn[i])

\* C7: deduplication is idempotent: for every record list on which a dedup
\* helper returns, running the helper again on its own output returns without
\* raising and gives that output unchanged (dedup_articles and both
\* deduplicate_jobs variants).
C7_Idempotent ==
    /\ (dOut # NotCalled /\ dOut.fn = "dedup_articles") =>
          dedup_articles(dOut.val) = dOut.val
    /\ (dOut # NotCalled /\ dOut.fn = "deduplicate_jobs" /\ ~dOut.raised) =>
          deduplicate_jobs(dOut.val) = [raised |-> FALSE, val |-> dOut.val]
    /\ (dOut # NotCalled /\ dOut.fn = "deduplicate_jobs_sk" /\ ~dOut.raised) =>
          deduplicate_jobs_sk(dOut.val) = [raised |-> FALSE, val |-> dOut.val]

\* C8: the list a dedup helper returns is a subsequence of its input: every
\* output record is an input record, in the input's relative order.
C8_OutputIsSubsequence ==
    (/\ dOut # NotCalled
     /\ dOut.fn \in {"dedup_articles", "deduplicate_jobs", "deduplicate_jobs_sk"}
     /\ ~dOut.raised) =>
        /\ IsSubseq(dOut.val, dIn)
        /\ Range(dOut.val) \subseteq Range(dIn)
        /\ Len(dOut.val) <= Len(dIn)

\* each helper has returned a list from which it removed a duplicate
C7_Witness ==
    /\ dOut # NotCalled
    /\ dOut.fn = "deduplicate_jobs"
    /\ ~dOut.raised
    /\ Len(dIn) = 3
    /\ Len(dOut.val) = 2

\* a dedup call that dropped a record between two kept ones
C8_Witness ==
    /\ DedupArticlesDone
    /\ Len(dIn) = 3
    /\ dOut.kept = <<1, 3>>
    /\ dIn[1] # dIn[3]

\* C9 as stated: dedup_articles, deduplicate_jobs and clean_job_data return
\* without raising for every record, a None-valued field included.
C9_Total ==
    dOut # NotCalled => ~dOut.raised

-----------------------------------------------------------------------------
(* Classifier claims *)

ClassifierCalled == cOut # NotCalled

\* C1: whenever the classifier's LLM call returns a text (valid JSON, JSON of
\* the wrong shape, non-JSON, empty, fenced or not), route_categories and
\* classify_query return a non-empty list of vocabulary labels.
C1_NonEmptyVocabulary ==
    (ClassifierCalled /\ ~cLlm.raised) =>
        /\ ~cOut.raised
        /\ cOut.val # <<>>
        /\ \A i \in 1..Len(cOut.val) : cOut.val[i] \in CATEGORIES

\* a fenced response that mixes a valid label with an unknown one
C1_Witness ==
    /\ ClassifierCalled
    /\ cVariant = "maf"
    /\ ~cLlm.raised
    /\ cLlm.text = <<FenceLang,
                     JsonLine(JTargets(JList(<<JStr("weather"), JStr("sports")>>))),
                     Fence>>
    /\ cOut = Ret(<<"sports">>)

\* C2 as stated: when the classifier's text-generation call raises, or parsing
\* its response raises, the classifier returns ["general"] and no exception
\* leaves it.
C2_FallbackOnFailure ==
    /\ (ClassifierCalled /\ cLlm.raised) => cOut = Ret(General)
    /\ (ClassifierCalled /\ ~cLlm.raised /\ cVariant = "news"
            /\ ~JsonLoads(cLlm.text).ok) => cOut = Ret(General)
    /\ (ClassifierCalled /\ ~cLlm.raised /\ cVariant # "news"
            /\ ~JsonLoads(Unfence(cLlm.text)).ok) => cOut = Ret(General)

\* C18: the classifier returns between 1 and 3 labels, also when the
\* response lists more than three valid labels or repeats a label.
C18_AtMostThreeLabels ==
    (ClassifierCalled /\ ~cOut.raised) =>
        (Len(cOut.val) >= 1 /\ Len(cOut.val) <= 3)

\* the vocabulary terms that occur in the response text
TermsIn(text) ==
    UNION {text[i].terms : i \in {k \in 1..Len(text) : text[k].t = "prose"}}

ParseFails ==
    ~JsonLoads(IF cVariant = "news" THEN cLlm.text ELSE Unfence(cLlm.text)).ok

\* C19: when the response cannot be parsed but its text contains vocabulary
\* terms, the classifier returns those terms rather than the fallback.
C19_SubstringFallback ==
    (ClassifierCalled /\ ~cLlm.raised /\ ParseFails /\ TermsIn(cLlm.text) # {}) =>
        /\ ~cOut.raised
        /\ {cOut.val[i] : i \in 1..Len(cOut.val)} = TermsIn(cLlm.text)

\* C19 as the code has it: when the response cannot be parsed, every
\* classifier returns ["general"], whatever vocabulary terms the text
\* contains; the text is never scanned.
C19_UnparsedIsGeneral ==
    (ClassifierCalled /\ ~cLlm.raised /\ ParseFails) => cOut = Ret(General)

\* an unparseable response mentioning two vocabulary terms was answered
\* with the fallback
C19_Witness ==
    /\ ClassifierCalled /\ ~cLlm.raised /\ ParseFails
    /\ TermsIn(cLlm.text) = {"sports", "technology"}
    /\ cVariant = "maf"
    /\ cOut = Ret(General)

-----------------------------------------------------------------------------
(* Vocabulary of the orchestrator claims *)

FetchesDone == pc \in {"summarize", "final", "done"} /\ targets # <<>>
                /\ \A i \in 1..Len(resp) : resp[i] # Pending

DedupCalled == merged # NotCalled

\* the category's fetch failed: the agent call raised, or the response is not
\* JSON, not a list, or carries an error field
FetchFailed(o, outcome) ==
    \/ outcome.raised
    \/ LET p == JsonLoads(IF o \in {"maf_conc", "workflow"} THEN Unfence(outcome.text)
                          ELSE outcome.text)
       IN  ~p.ok \/ p.v.j # "list"

FailedSet == {i \in 1..Len(resp) : FetchFailed(orch, resp[i])}

Without(idxs, i) == SelectSeq(idxs, LAMBDA k : k # i)

Perms(n) == {p \in [1..n -> 1..n] : \A i, j \in 1..n : p[i] = p[j] => i = j}

\* C3: when exactly one of the N selected categories fails and the others
\* succeed, the run does not raise and the list handed to dedup is the list
\* built from the other N-1 categories alone.
C3_FaultIsolation ==
    (FetchesDone /\ Cardinality(FailedSet) = 1) =>
        /\ result # RaisedAt("fetch")
        /\ DedupCalled =>
             LET f == CHOOSE i \in FailedSet : TRUE
                 idxs == ConsumeOrder(orch, Len(targets), order)
             IN  merged.val = MergeOver(orch, targets, resp, Without(idxs, f))

\* C4 as stated: the set of records dedup_articles keeps is the same for
\* every order in which the per-category lists are concatenated.
C4_AsStated ==
    (FetchesDone /\ DedupCalled) =>
        \A p \in Perms(Len(targets)) :
            Range(dedup_articles(MergeOver(orch, targets, resp, p))) = Range(unique.val)

\* C4: in ProNewsOrchestrator the per-category lists are concatenated in the
\* order of the selected targets whatever the order in which the fetches
\* complete, so the list dedup_articles keeps is the same for every
\* interleaving of the fetches.
C4_ProIndependentOfCompletion ==
    (orch = "pro" /\ FetchesDone /\ DedupCalled) =>
        /\ merged.val = MergeOver(orch, targets, resp, Indices(Len(targets)))
        /\ unique.val = dedup_articles(MergeOver(orch, targets, resp,
                                                 Indices(Len(targets))))

\* the second fetch completed first, and the order matters to dedup
C4_Witness ==
    /\ orch = "pro" /\ FetchesDone /\ DedupCalled
    /\ order = <<2, 1>>
    /\ Range(dedup_articles(MergeOver(orch, targets, resp, order))) # Range(unique.val)

AllWellFormed == FetchesDone /\ FailedSet = {} /\ DedupCalled

HasUrl(a) == ArticleUrl(a) # <<>>

\* the key of the claim: the URL, and the normalized title when the URL is absent
SameUrlPrimaryKey(a, b) ==
    IF HasUrl(a) /\ HasUrl(b) THEN SameUrl(a, b)
    ELSE SameTitle(a, b)

C10_EmptyShortCircuits ==
    (unique # NotCalled /\ unique.val = <<>>) =>
        /\ sumCalls = 0
        /\ pc = "done" => result = Text(NothingFound(orch))

\* C11: if the summarizer's call raises, run/execute still returns a text;
\* the exception never leaves the orchestrator.
C11_SummarizerFailureContained ==
    result # RaisedAt("summarize")

StageRank(stage) ==
    CASE stage = "route" -> 0
      [] stage = "fetch" -> 1
      [] stage = "summarize" -> 2
      [] stage = "final" -> 3
      [] OTHER -> 4

FetchStarted == resp # <<>>

\* C12: the stages occur in the order classify, fetch, dedup, summarize: a
\* fetch exists only once the classifier has returned, dedup has run only
\* when every fetch has answered, the summarizer has been invoked only after
\* dedup, and no step goes back to an earlier stage.
C12_StageOrder ==
    /\ [](/\ FetchStarted => (targets # <<>> /\ StageRank(pc) >= 1)
          /\ order # <<>> => FetchStarted
          /\ DedupCalled => (\A i \in 1..Len(resp) : resp[i] # Pending)
          /\ DedupCalled => unique # NotCalled
          /\ sumCalls > 0 => (DedupCalled /\ StageRank(pc) >= 2)
          /\ pc \in {"summarize", "final"} => DedupCalled)
    /\ [][StageRank(pc') >= StageRank(pc)]_vars

\* a run of two categories went through every stage, the second category
\* answering first
C12_Witness ==
    /\ pc = "done" /\ sumCalls > 0 /\ order = <<2, 1>> /\ DedupCalled

\* C13: when the extraction stage yields zero records, neither the
\* recommender nor the summarizer agent is called and the run ends with the
\* nothing-found text.
C13_EmptyExtractionShortCircuits ==
    (jJobs # NotCalled /\ jJobs.val = <<>>) =>
        /\ jRecCalls = 0
        /\ jSumCalls = 0
        /\ jPc = "done" => jResult = Text(NoRecommendations)

Answered(i) == resp[i] # Pending /\ ~resp[i].raised

\* the payload the orchestrator's parser obtains from json.loads
Payload(o, text) ==
    JsonLoads(IF o \in {"maf_conc", "workflow"} THEN Unfence(text) ELSE text)

ErrorOrNotList(o, text) ==
    LET p == Payload(o, text)
    IN  p.ok /\ p.v.j # "list"

\* C14: in the news_maf parsers a payload that is a dict with an error key,
\* or any payload that is not a list, yields no records: the category
\* contributes nothing to the list handed to dedup.
C14_ErrorOrNonListIsEmpty ==
    (orch \in {"maf_seq", "maf_conc", "workflow"}) =>
        /\ \A i \in 1..Len(resp) :
             (Answered(i) /\ ErrorOrNotList(orch, resp[i].text)) =>
                 Contribution(orch, resp[i], targets[i]) = <<>>
        /\ (FetchesDone /\ DedupCalled) =>
             merged.val =
                MergeOver(orch, targets, resp,
                          SelectSeq(ConsumeOrder(orch, Len(targets), order),
                                    LAMBDA i : ~(Answered(i) /\
                                        ErrorOrNotList(orch, resp[i].text))))

\* one category answered an error object, the other a record list that
\* reached dedup
C14_Witness ==
    /\ orch \in {"maf_seq", "maf_conc", "workflow"}
    /\ FetchesDone /\ DedupCalled /\ Len(resp) = 2
    /\ resp[1] = [raised |-> FALSE, text |-> <<JsonLine(ErrorObj)>>]
    /\ merged.val # <<>>

\* C15: every record of a successful fetch carries a category field, the
\* fetch's category when the source record had none and the source's own
\* otherwise, and is otherwise unchanged.
C15_RecordsTagged ==
    \A i \in 1..Len(resp) :
        (Answered(i) /\ Payload(orch, resp[i].text).ok
            /\ Payload(orch, resp[i].text).v.j = "list") =>
            LET items == Payload(orch, resp[i].text).v.items
            IN  Contribution(orch, resp[i], targets[i]) =
                    [k \in 1..Len(items) |-> Tag(items[k], targets[i])]

\* C16: a record list wrapped in markdown code fences is parsed to the same
\* record list as the unwrapped text, by every orchestrator's parser.
C16_FencesStripped ==
    \A i \in 1..Len(resp) :
        Answered(i) =>
            Contribution(orch, resp[i], targets[i]) =
                Contribution(orch, [raised |-> FALSE, text |-> Unfence(resp[i].text)],
                             targets[i])

\* what the sequential orchestrator of news_maf hands to the summarizer for
\* the categories and responses of the current run
SequentialHandsOver ==
    dedup_articles(MergeOver("maf_seq", targets, resp, Indices(Len(targets))))

\* C17: for the same categories and the same fetch responses, the concurrent
\* orchestrator of news_maf hands the summarizer the deduplicated list the
\* sequential one hands over (and calls it exactly when that one does).
C17_SequentialEqualsConcurrent ==
    (orch = "maf_conc" /\ FetchesDone /\ \A i \in 1..Len(resp) : ~resp[i].raised) =>
        IF SequentialHandsOver = <<>> THEN sumCalls = 0 /\ pc = "done"
        ELSE unique = Ret(SequentialHandsOver)

\* C20: no search collaborator raises on missing credentials or on a network
\* failure of the request, nor when the API has no usable results: it
\* returns a mock/fallback record list or an object with an error field (or,
\* without results, the record list it found).
C20_CollaboratorsDegrade ==
    (pOut # NotCalled) =>
        /\ ~pOut.raised
        /\ (~pKey \/ RequestException(pHttp)) =>
              (pOut.val.kind = "error" \/ pOut.val.mock)

JobsReturned ==
    /\ pFn \in {"search_jobs", "search_jobs_maf"}
    /\ pOut # NotCalled /\ ~pOut.raised
    /\ pOut.val.kind = "records" /\ pOut.val.n > 0

WordCount(desc) == Cardinality({i \in 1..Len(desc) : desc[i] = "w"})

EndsWithMarker(desc) == desc # <<>> /\ desc[Len(desc)] = "..."

\* C21: every description search_jobs returns has at most 100 words, ends
\* with '...' exactly when the source description had more than 100 words,
\* and is the source description itself when that has 100 words or fewer.
C21_DescriptionTruncated ==
    JobsReturned =>
        LET src == OrEmpty(pHttp.description).s
            out == pOut.val.description
        IN  /\ WordCount(out) <= WordLimit
            /\ EndsWithMarker(out) <=> (WordCount(src) > WordLimit)
            /\ WordCount(src) <= WordLimit => out = src
            /\ WordCount(src) > WordLimit =>
                  SubSeq(out, 1, Len(out) - 1) = Join(SubSeq(Split(src), 1, WordLimit))

\* a description of 101 newline-separated words was cut to 100 words and the
\* marker
C21_Witness ==
    /\ JobsReturned
    /\ pHttp.description = Str(WordsSep(WordLimit + 1, "\n"))
    /\ WordCount(pOut.val.description) = WordLimit
    /\ EndsWithMarker(pOut.val.description)

\* C24: a search call with parameter limit returns at most limit records,
\* whatever number of results the upstream API answers with.
C24_AtMostLimit ==
    (/\ pFn \in {"fetch_top_headlines", "fetch_top_headlines_maf",
                 "search_jobs", "search_jobs_maf"}
     /\ pOut # NotCalled /\ ~pOut.raised /\ pOut.val.kind = "records") =>
        pOut.val.n <= pLimit

AnyPunct == TitlePunct \cup {","}

\* a title without its letter case, its leading whitespace, and its trailing
\* whitespace and punctuation
Undecorated(t) == Lower(LStripSet(RStripSet(t.s, Whitespace \cup AnyPunct), Whitespace))

\* a title without its letter case, its surrounding whitespace, and the
\* characters . - ! ? $ at the end of the trimmed title
UndecoratedTrimmed(t) ==
    Lower(LStripSet(RStripSet(RStripSet(t.s, Whitespace), TitlePunct), Whitespace))

TitleAt(i) == Get(dIn[i], "title")

\* C22 as stated: two titles that differ only in letter case, surrounding
\* whitespace and trailing punctuation get the same normalized title and are
\* not both kept by dedup_articles.
C22_AsStated ==
    DedupArticlesDone =>
        \A i, j \in 1..Len(dIn) :
            (/\ i < j /\ IsStr(TitleAt(i)) /\ IsStr(TitleAt(j))
             /\ Undecorated(TitleAt(i)) = Undecorated(TitleAt(j))) =>
                /\ _norm_title(TitleAt(i)) = _norm_title(TitleAt(j))
                /\ ~(i \in KeptSet /\ j \in KeptSet)

\* C22: two titles that differ only in letter case, surrounding whitespace
\* and trailing characters among . - ! ? $ get the same normalized title, and
\* when that title is not empty dedup_articles keeps at most one of them.
C22_SameNormalizedTitle ==
    DedupArticlesDone =>
        \A i, j \in 1..Len(dIn) :
            (/\ i < j /\ IsStr(TitleAt(i)) /\ IsStr(TitleAt(j))
             /\ UndecoratedTrimmed(TitleAt(i)) = UndecoratedTrimmed(TitleAt(j))) =>
                /\ _norm_title(TitleAt(i)) = _norm_title(TitleAt(j))
                /\ _norm_title(TitleAt(i)) # <<>> =>
                      ~(i \in KeptSet /\ j \in KeptSet)

\* "a" and " A." under different URLs: the second record was dropped
C22_Witness ==
    /\ DedupArticlesDone
    /\ Len(dIn) = 2
    /\ TitleAt(1) = Str(<<"a">>) /\ TitleAt(2) = Str(<<" ", "A", ".">>)
    /\ ArticleUrl(dIn[1]) # <<>> /\ ArticleUrl(dIn[2]) # <<>>
    /\ ArticleUrl(dIn[1]) # ArticleUrl(dIn[2])
    /\ dOut.kept = <<1>>

\* C25: in every output of dedup_articles no two records have the same
\* non-empty stripped URL, no two have the same non-empty normalized title,
\* and every record has a non-empty URL or a non-empty normalized title.
C25_OutputKeysDistinct ==
    DedupArticlesDone =>
        /\ \A i, j \in 1..Len(dOut.val) :
             i # j => /\ ~SameUrl(dOut.val[i], dOut.val[j])
                      /\ ~SameTitle(dOut.val[i], dOut.val[j])
        /\ \A i \in 1..Len(dOut.val) : ~NoKey(dOut.val[i])

\* three records went in, one without URL and title and one repeating the
\* title of the first under another URL; only the first came out
C25_Witness ==
    /\ DedupArticlesDone
    /\ Len(dIn) = 3 /\ Len(dOut.val) = 1
    /\ \E i \in 1..3 : NoKey(dIn[i])
    /\ \E i, j \in 1..3 :
         i < j /\ SameTitle(dIn[i], dIn[j]) /\ ~SameUrl(dIn[i], dIn[j])
               /\ ArticleUrl(dIn[j]) # <<>>

\* C23: in the job pipeline a posting is identified by its title and company
\* together: of the cleaned postings with the same title and company exactly
\* the first is kept, so postings with the same title and different
\* companies are all kept.
C23_TitleAndCompanyKey ==
    (dOut # NotCalled /\ dOut.fn = "clean_and_dedup" /\ ~dOut.raised) =>
        LET cleaned == CleanAll(dIn).val
        IN  \A i \in 1..Len(cleaned) :
               cleaned[i].title.s # <<>> =>
               Cardinality({k \in 1..Len(dOut.val) :
                              /\ dOut.val[k].title = cleaned[i].title
                              /\ dOut.val[k].company = cleaned[i].company}) = 1

\* the least k with BatchSize * k >= n
CeilBatches(n) == CHOOSE k \in 0..n : BatchSize * k >= n /\ BatchSize * (k - 1) < n

ProSummarizes == orch = "pro" /\ unique # NotCalled /\ Len(unique.val) >= 1

\* the articles of the batches the summarizer was given so far, in call order
BatchedSoFar ==
    Concat([k \in 1..Len(sumArgs) |->
               IF "articles" \in DOMAIN sumArgs[k] THEN sumArgs[k].articles ELSE <<>>])

\* C26: ProNewsOrchestrator gives the summarizer the n deduplicated articles
\* in consecutive batches of 1 to 6 that follow the dedup order and cover
\* every article once, in ceil(n/6) invocations, and then invokes it once
\* more for the final synthesis, after all batch calls.
C26_ConsecutiveBatches ==
    ProSummarizes =>
        LET n == Len(unique.val)
            K == CeilBatches(n)
        IN  /\ Len(sumArgs) = sumCalls /\ sumCalls <= K + 1
            /\ \A k \in 1..Len(sumArgs) :
                 IF k <= K
                 THEN /\ "articles" \in DOMAIN sumArgs[k]
                      /\ Len(sumArgs[k].articles) \in 1..BatchSize
                 ELSE sumArgs[k] = [combined |-> K]
            /\ BatchedSoFar = SubSeq(unique.val, 1, Len(BatchedSoFar))
            /\ pc = "summarize" => sumCalls < K
            /\ pc = "final" => sumCalls = K /\ BatchedSoFar = unique.val
            /\ (pc = "done" /\ result = Text("header brief")) =>
                  sumCalls = K + 1 /\ BatchedSoFar = unique.val

\* thirteen articles were summarised in three batches and one synthesis
C26_Witness ==
    /\ ProSummarizes
    /\ Len(unique.val) = 2 * BatchSize + 1
    /\ pc = "done" /\ result = Text("header brief")
    /\ sumCalls = 4
    /\ Len(sumArgs[3].articles) = 1

\* C27: the messages sent to an agent while it was registered are, in the
\* order sent, the messages get_messages_for_agent has returned for it
\* followed by the messages still queued for it: each is returned by one
\* call and by no other; a message to an unregistered receiver changes no
\* queue.
C27_DeliveredOnceInOrder ==
    \A id \in AgentIds :
        Queue(eSent, id) = Queue(eGot, id) \o Queue(eQueues, id)

\* two messages for the registered analyst were returned by one call, in the
\* order sent, and a third, sent to the unregistered id, was dropped
C27_Witness ==
    /\ Analyst \in eAgents
    /\ eSends = 3
    /\ Queue(eGot, Analyst) =
          <<Envelope(Extractor, [type |-> "status"]),
            Envelope(Extractor, NewJobData(<<"j1">>))>>
    /\ Queue(eQueues, Analyst) = <<>>
    /\ \A id \in AgentIds \ {Analyst} : Queue(eSent, id) = <<>>

\* C28: with the extractor and the analyst registered, processing a delivered
\* message never raises, and after every simulation step the analyst's
\* total_jobs_processed is the number of jobs in all new_job_data messages
\* the extractor has sent so far and the analyst's percepts are empty.
C28_TotalMatchesSent ==
    /\ ~sRaised
    /\ sTurn \in {Extractor, "done"} => aTotal = sSentJobs /\ aPercepts = <<>>

\* C29: the paginated extraction loops terminate for every sequence of API
\* answers and return at most num_results jobs, in page order.
C29_TerminatesAndReturns ==
    /\ <>(gPc = "returned")
    /\ [](gPc = "returned" =>
            /\ Len(gOut.val) <= gNum
            /\ gOut.val = SubSeq(gPages, 1, Len(gOut.val)))

\* every run of either loop leaves the loop, by return or by exception
PaginationEnds == <>(gPc \in {"returned", "raised"})

\* C30: after any sequence of store_preference, clear and reset_memory calls
\* get_preference(k) returns the value of the most recent store for k since
\* the last clear or reset and the default when there is none, also after
\* the caller of get_all_preferences changed the dict it received.
C30_LastWriteWins ==
    /\ \A key \in PrefKeys, default \in Defaults :
          get_preference(mMemory, key, default) =
             IF key \in DOMAIN mLast THEN mLast[key] ELSE default
    /\ mGot # NotCalled => mGot.val = mGot.expected

\* "budget" was stored, handed out in a copy, stored again with another
\* value and read; the copy was changed under the other key meanwhile
C30_Witness ==
    /\ mCopy # NotCalled
    /\ mCopy.dict = Put(Put(EmptyDict, "budget", Str(<<"x">>)), "travel_dates", Str(<<"y">>))
    /\ mMemory = Put(EmptyDict, "budget", Str(<<"y">>))
    /\ mGot # NotCalled
    /\ mGot.key = "travel_dates" /\ mGot.val = NoneV

====
